---- MODULE Spec2Model ----
(***************************************************************************)
(* PaperFlow: the React-tree-to-IR converter, the class-token style        *)
(* resolver, the font and image resolution services with their             *)
(* process-wide caches, and the render pipeline that joins them.           *)
(*                                                                         *)
(* JavaScript values are modelled as follows.                              *)
(*   - a style value is a one-field record that carries its type:          *)
(*     [s |-> "..."] a string, [n |-> 12] a number, [cs |-> <<chars>>] a   *)
(*     string kept character by character (font families, which the code   *)
(*     trims, lowercases and splits), [u |-> "undefined"/"null"];          *)
(*   - an object (props, style) is a function from its own keys;           *)
(*   - a class token "gap-x-4" is the sequence of its hyphen-separated     *)
(*     segments <<"gap","x","4">>, so that startsWith('gap-') and          *)
(*     slice(4) are computed on the token's structure;                     *)
(*   - a Map is the sequence of its entries in insertion order.            *)
(***************************************************************************)
EXTENDS Integers, Sequences, FiniteSets, TLC

VARIABLES
    element,      \* the React element handed to reactToIR / render
    irDoc,        \* reactToIR's outcome, NotRun before the call
    fontCache,    \* the module-level Map fontCache: cache key -> bytes
    customFonts,  \* the module-level Map customFonts: family -> FontConfig[]
    fontLoads,    \* the loadFont calls that have not returned, in call order
    lastCall,     \* the loadFont call of a direct caller that settled last
    lastOk,       \* per cache key: the latest fulfilled loadFont since a clear
    pairLog,      \* the latest fulfilled call that followed a fulfilled one
    imageCache,   \* the module-level Map imageCache: URL -> LoadedImage
    options,      \* the RenderOptions handed to render
    run,          \* the render call in progress: its position and its locals
    unwrapping,   \* the unwrapElement call in progress: its position and locals
    imageLoads,   \* the loadImage calls of direct callers that have not returned
                  \* (cleared: clearImageCache has run since the call was made)
    lastImage     \* the loadImage call of a direct caller that settled last

convVars == <<element, irDoc, unwrapping>>
fontVars == <<fontCache, customFonts, fontLoads, lastCall, lastOk, pairLog>>
renderVars == <<imageCache, options, run>>
imgVars == <<imageLoads, lastImage>>
vars == <<element, irDoc, fontCache, customFonts, fontLoads, lastCall, lastOk, pairLog,
          imageCache, options, run, unwrapping, imageLoads, lastImage>>

\* ------------------------------------------------------------------------
\* Values
\* ------------------------------------------------------------------------
StrV(x) == [s |-> x]
NumV(x) == [n |-> x]
CharsV(x) == [cs |-> x]
Undefined == [u |-> "undefined"]
Null == [u |-> "null"]
IsNullish(v) == v = Undefined \/ v = Null

Has(obj, key) == key \in DOMAIN obj
\* obj.key read the JavaScript way: a missing key reads undefined
Get(obj, key) == IF key \in DOMAIN obj THEN obj[key] ELSE Undefined
\* {...a, ...b}
Spread(a, b) == b @@ a
Without(obj, keys) == [k \in (DOMAIN obj) \ keys |-> obj[k]]
EmptyObj == [k \in {} |-> Undefined]
NotRun == [notrun |-> TRUE]
NoneV == [none |-> TRUE]

\* ------------------------------------------------------------------------
\* Characters (font family strings)
\* ------------------------------------------------------------------------
LowerChar(c) ==
    CASE c = "I" -> "i"
      [] c = "L" -> "l"
      [] c = "O" -> "o"
      [] c = "S" -> "s"
      [] c = "G" -> "g"
      [] c = "P" -> "p"
      [] c = "N" -> "n"
      [] OTHER -> c

UpperChar(c) ==
    CASE c = "i" -> "I"
      [] c = "l" -> "L"
      [] c = "o" -> "O"
      [] c = "s" -> "S"
      [] OTHER -> c

IsQuote(c) == c \in {"'", "\""}
IsSpace(c) == c = " "

RECURSIVE FilterChars(_, _)
\* str.replace(/["']/g, '') when drop = quotes
FilterChars(str, drop) ==
    IF str = <<>> THEN <<>>
    ELSE IF Head(str) \in drop THEN FilterChars(Tail(str), drop)
    ELSE <<Head(str)>> \o FilterChars(Tail(str), drop)

StripQuotes(str) == FilterChars(str, {"'", "\""})

RECURSIVE TrimLeft(_)
TrimLeft(str) ==
    IF str # <<>> /\ IsSpace(Head(str)) THEN TrimLeft(Tail(str)) ELSE str

RECURSIVE TrimRight(_)
TrimRight(str) ==
    IF str # <<>> /\ IsSpace(str[Len(str)])
    THEN TrimRight(SubSeq(str, 1, Len(str) - 1))
    ELSE str

Trim(str) == TrimRight(TrimLeft(str))

ToLowerCase(str) == [i \in 1..Len(str) |-> LowerChar(str[i])]

RECURSIVE SpacesToHyphen(_)
\* str.replace(/\s+/g, '-'): every run of whitespace becomes one hyphen
SpacesToHyphen(str) ==
    IF str = <<>> THEN <<>>
    ELSE IF IsSpace(Head(str))
         THEN <<"-">> \o SpacesToHyphen(TrimLeft(Tail(str)))
         ELSE <<Head(str)>> \o SpacesToHyphen(Tail(str))

RECURSIVE FirstField(_)
\* str.split(',')[0]
FirstField(str) ==
    IF str = <<>> \/ Head(str) = "," THEN <<>>
    ELSE <<Head(str)>> \o FirstField(Tail(str))

ChInter == <<"I", "n", "t", "e", "r">>
ChLato == <<"L", "a", "t", "o">>
ChLatoLower == <<"l", "a", "t", "o">>
ChLatoQuoted == <<"'", "L", "a", "t", "o", "'">>
ChLatoList == <<"L", "a", "t", "o", ",", " ", "s", "e", "r", "i", "f">>
\* 'Inter, system-ui, sans-serif' and 'Georgia, serif'
ChSansStack ==
    <<"I", "n", "t", "e", "r", ",", " ", "s", "y", "s", "t", "e", "m", "-", "u", "i",
      ",", " ", "s", "a", "n", "s", "-", "s", "e", "r", "i", "f">>
ChSerifStack == <<"G", "e", "o", "r", "g", "i", "a", ",", " ", "s", "e", "r", "i", "f">>
ChOpenSans == <<"O", "p", "e", "n", " ", "S", "a", "n", "s">>

\* ------------------------------------------------------------------------
\* Style resolver (class tokens)
\* ------------------------------------------------------------------------
\* The entries of the lookup tables that the model's tokens reach.
SPACING == (<<"0">> :> 0) @@ (<<"2">> :> 8) @@ (<<"4">> :> 16)

FONT_SIZES ==
    (<<"sm">> :> [fontSize |-> 14, lineHeight |-> 20])
    @@ (<<"xl">> :> [fontSize |-> 20, lineHeight |-> 28])

FONT_WEIGHTS == (<<"normal">> :> 400) @@ (<<"bold">> :> 700) @@ (<<"black">> :> 900)

COLORS ==
    (<<"black">> :> "#000000") @@ (<<"white">> :> "#ffffff")
    @@ (<<"red", "500">> :> "#ef4444")

\* the characters of a token segment
SegChars(seg) ==
    CASE seg = "lato" -> <<"l", "a", "t", "o">>
      [] seg = "inter" -> <<"i", "n", "t", "e", "r">>
      [] seg = "open" -> <<"o", "p", "e", "n">>
      [] seg = "sans" -> <<"s", "a", "n", "s">>
      [] OTHER -> <<>>

\* word.charAt(0).toUpperCase() + word.slice(1)
Capitalize(word) ==
    IF word = <<>> THEN <<>> ELSE <<UpperChar(Head(word))>> \o Tail(word)

RECURSIVE TitleCaseSegs(_)
\* fontName.split('-').map(capitalize).join(' ')
TitleCaseSegs(segs) ==
    IF segs = <<>> THEN <<>>
    ELSE IF Len(segs) = 1 THEN Capitalize(SegChars(segs[1]))
    ELSE Capitalize(SegChars(segs[1])) \o <<" ">> \o TitleCaseSegs(Tail(segs))

\* cls.startsWith(prefix + '-')
StartsWith(cls, prefix) == Len(cls) >= 2 /\ cls[1] = prefix
\* cls.slice(prefix.length + 1)
Slice1(cls) == Tail(cls)
\* cls === 'a-b'
Is(cls, segs) == cls = segs

Set1(style, key, v) == (key :> v) @@ style

\* One class token applied to the style under construction; the branches are
\* the source's, in the source's order.
parseClass(cls, style) ==
    IF Is(cls, <<"flex">>) THEN Set1(style, "display", StrV("flex"))
    ELSE IF Is(cls, <<"hidden">>) THEN Set1(style, "display", StrV("none"))
    ELSE IF StartsWith(cls, "gap") THEN
        IF Slice1(cls) \in DOMAIN SPACING
        THEN Set1(style, "gap", NumV(SPACING[Slice1(cls)]))
        ELSE style
    ELSE IF StartsWith(cls, "gap") /\ Len(cls) >= 3 /\ cls[2] = "x" THEN
        IF Tail(Tail(cls)) \in DOMAIN SPACING
        THEN Set1(style, "columnGap", NumV(SPACING[Tail(Tail(cls))]))
        ELSE style
    ELSE IF StartsWith(cls, "gap") /\ Len(cls) >= 3 /\ cls[2] = "y" THEN
        IF Tail(Tail(cls)) \in DOMAIN SPACING
        THEN Set1(style, "rowGap", NumV(SPACING[Tail(Tail(cls))]))
        ELSE style
    ELSE IF StartsWith(cls, "p") THEN
        IF Slice1(cls) \in DOMAIN SPACING
        THEN Set1(style, "padding", NumV(SPACING[Slice1(cls)]))
        ELSE style
    ELSE IF StartsWith(cls, "text") /\ Slice1(cls) \in DOMAIN FONT_SIZES THEN
        Set1(Set1(style, "fontSize", NumV(FONT_SIZES[Slice1(cls)].fontSize)),
             "lineHeight", NumV(FONT_SIZES[Slice1(cls)].lineHeight))
    ELSE IF StartsWith(cls, "font") /\ Slice1(cls) \in DOMAIN FONT_WEIGHTS THEN
        Set1(style, "fontWeight", NumV(FONT_WEIGHTS[Slice1(cls)]))
    ELSE IF Is(cls, <<"italic">>) THEN Set1(style, "fontStyle", StrV("italic"))
    ELSE IF Is(cls, <<"not", "italic">>) THEN Set1(style, "fontStyle", StrV("normal"))
    ELSE IF Is(cls, <<"font", "sans">>) THEN Set1(style, "fontFamily", CharsV(ChSansStack))
    ELSE IF Is(cls, <<"font", "serif">>) THEN Set1(style, "fontFamily", CharsV(ChSerifStack))
    ELSE IF StartsWith(cls, "font") /\ Slice1(cls) \notin DOMAIN FONT_WEIGHTS THEN
        IF Slice1(cls) \notin {<<"sans">>, <<"serif">>, <<"mono">>}
        THEN Set1(style, "fontFamily", CharsV(TitleCaseSegs(Slice1(cls))))
        ELSE style
    ELSE IF StartsWith(cls, "text") /\ Slice1(cls) \in DOMAIN COLORS THEN
        Set1(style, "color", StrV(COLORS[Slice1(cls)]))
    ELSE IF StartsWith(cls, "bg") /\ Slice1(cls) \in DOMAIN COLORS THEN
        Set1(style, "backgroundColor", StrV(COLORS[Slice1(cls)]))
    ELSE style

RECURSIVE parseLoopLastFirst(_, _)
\* the loop run from the last class to the first
parseLoopLastFirst(classes, style) ==
    IF classes = <<>> THEN style
    ELSE parseLoopLastFirst(SubSeq(classes, 1, Len(classes) - 1),
                            parseClass(classes[Len(classes)], style))

RECURSIVE parseLoop(_, _)
\* for (const cls of classes) parseClass(cls, style)
parseLoop(classes, style) ==
    IF classes = <<>> THEN style
    ELSE parseLoop(Tail(classes), parseClass(Head(classes), style))

\* className.split(/\s+/).filter(Boolean): the words of the string, the empty
\* word <<>> standing for the empty pieces that surrounding whitespace yields
SplitFilter(className) == SelectSeq(className, LAMBDA w : w # <<>>)

\* A class string is [words |-> its whitespace-separated pieces].
parseTailwindClasses(className) ==
    IF className.words = <<>> THEN EmptyObj
    ELSE parseLoop(SplitFilter(className.words), EmptyObj)

\* ------------------------------------------------------------------------
\* Errors
\* ------------------------------------------------------------------------
\* new PaperFlowError(message, code, context)
PaperFlowError(code, context) == [pf |-> TRUE, code |-> code, context |-> context]
\* any other thrown value (Error, TypeError, ...)
PlainError(name) == [pf |-> FALSE, code |-> name, context |-> EmptyObj]
NoError == [pf |-> FALSE, code |-> "none", context |-> EmptyObj]

\* ------------------------------------------------------------------------
\* Components
\* ------------------------------------------------------------------------
ELEMENT_TYPES ==
    [DOCUMENT |-> "paperflow-document", PAGE |-> "paperflow-page",
     VIEW |-> "paperflow-view", TEXT |-> "paperflow-text",
     IMAGE |-> "paperflow-image", LINK |-> "paperflow-link"]

TagT(tag) == [tag |-> tag]
FnT(name) == [fn |-> name]
IsFunctionType(type) == "fn" \in DOMAIN type

Elem(type, props) == [kind |-> "element", type |-> type, props |-> props]
\* React.createElement(type, props, children)
createElement(type, props, children) == Elem(type, ("children" :> children) @@ props)

\* a destructuring default: the default applies when the prop reads undefined
Default(props, key, dflt) ==
    IF Get(props, key) = Undefined THEN dflt ELSE props[key]

Document(props) ==
    createElement(TagT(ELEMENT_TYPES.DOCUMENT), Without(props, {"children"}),
                  Get(props, "children"))

Page(props) ==
    createElement(TagT(ELEMENT_TYPES.PAGE),
        Spread([size |-> Default(props, "size", StrV("A4")),
                margin |-> Default(props, "margin", NumV(40)),
                orientation |-> Default(props, "orientation", StrV("portrait"))],
               Without(props, {"children", "size", "margin", "orientation"})),
        Get(props, "children"))

View(props) ==
    createElement(TagT(ELEMENT_TYPES.VIEW),
        Spread([wrap |-> Default(props, "wrap", [b |-> TRUE])],
               Without(props, {"children", "wrap"})),
        Get(props, "children"))

Text(props) ==
    createElement(TagT(ELEMENT_TYPES.TEXT),
        Spread([wrap |-> Default(props, "wrap", [b |-> TRUE])],
               Without(props, {"children", "wrap"})),
        Get(props, "children"))

Image(props) ==
    Elem(TagT(ELEMENT_TYPES.IMAGE),
        Spread([src |-> Get(props, "src"),
                cache |-> Default(props, "cache", [b |-> TRUE])],
               Without(props, {"src", "cache"})))

Link(props) ==
    createElement(TagT(ELEMENT_TYPES.LINK),
        Spread([href |-> Get(props, "href")], Without(props, {"children", "href"})),
        Get(props, "children"))

\* The function components of the model: the six of components.tsx and the
\* shapes a caller's own component can take (it renders another component, it
\* renders nothing, it throws, it renders itself, two render each other).
LibraryComponents == {"Document", "Page", "View", "Text", "Image", "Link"}
UserComponents == {"Wrapper", "Nothing", "Boom", "Loop", "Ping", "Pong"}

\* fn(current.props): an element, a non-element, or [throw |-> error]
InvokeComponent(fn, props) ==
    CASE fn = "Document" -> Document(props)
      [] fn = "Page" -> Page(props)
      [] fn = "View" -> View(props)
      [] fn = "Text" -> Text(props)
      [] fn = "Image" -> Image(props)
      [] fn = "Link" -> Link(props)
      [] fn = "Wrapper" -> Elem(FnT("View"), props)
      [] fn = "Nothing" -> Null
      [] fn = "Boom" -> [throw |-> PlainError("Error")]
      [] fn = "Loop" -> Elem(FnT("Loop"), props)
      [] fn = "Ping" -> Elem(FnT("Pong"), props)
      [] fn = "Pong" -> Elem(FnT("Ping"), props)

IsThrow(result) == "throw" \in DOMAIN result

isReactElement(obj) == "kind" \in DOMAIN obj /\ obj.kind = "element"

\* ------------------------------------------------------------------------
\* Tree converter
\* ------------------------------------------------------------------------
RECURSIVE unwrapElement(_)
\* The while loop of unwrapElement; a component that throws ends it with the
\* thrown value.  It has no exit for a component cycle: it is applied only to
\* elements whose expansion ends (UnwrapStep below runs the loop one iteration
\* at a time for the others).
unwrapElement(current) ==
    IF ~IsFunctionType(current.type) THEN current
    ELSE LET result == InvokeComponent(current.type.fn, current.props)
         IN  IF IsThrow(result) THEN result
             ELSE IF ~isReactElement(result) THEN current
             ELSE unwrapElement(result)

UnwrapIdle == [pc |-> "idle", current |-> NoneV, iterations |-> 0]

\* One evaluation of the loop condition of unwrapElement and, when it holds,
\* one run of the loop body.  iterations counts the runs of the body modulo
\* wrap.
unwrapIteration(u, wrap) ==
    IF ~IsFunctionType(u.current.type) THEN [u EXCEPT !.pc = "returned"]
    ELSE LET result == InvokeComponent(u.current.type.fn, u.current.props)
         IN  IF IsThrow(result) THEN [u EXCEPT !.pc = "threw"]
             ELSE IF ~isReactElement(result) THEN [u EXCEPT !.pc = "returned"]
             ELSE [u EXCEPT !.current = result,
                            !.iterations = (@ + 1) % wrap]

getElementType(type) ==
    IF "tag" \in DOMAIN type THEN
        CASE type.tag = ELEMENT_TYPES.DOCUMENT -> "document"
          [] type.tag = ELEMENT_TYPES.PAGE -> "page"
          [] type.tag = ELEMENT_TYPES.VIEW -> "view"
          [] type.tag = ELEMENT_TYPES.TEXT -> "text"
          [] type.tag = ELEMENT_TYPES.IMAGE -> "image"
          [] type.tag = ELEMENT_TYPES.LINK -> "link"
          [] OTHER -> "view"
    ELSE "view"

\* the spread written in the other order: the class tokens win
mergeStylesClassWins(tailwindStyle, inlineStyle) == Spread(inlineStyle, tailwindStyle)

mergeStyles(tailwindStyle, inlineStyle) == Spread(tailwindStyle, inlineStyle)

convertStyle(style) ==
    [k \in {key \in DOMAIN style : ~IsNullish(style[key])} |-> style[k]]

extractProps(props) ==
    [k \in {key \in (DOMAIN props) \ {"style", "className", "children"} :
              props[key] # Undefined} |-> props[k]]

\* weights[weight.toLowerCase()] ?? (parseInt(weight, 10) || 400), on the
\* weight strings of the model
parseWeight(weight) ==
    CASE weight = "thin" -> 100
      [] weight = "normal" -> 400
      [] weight = "bold" -> 700
      [] weight = "700" -> 700
      [] weight = "0" -> 400
      [] OTHER -> 400

\* a JavaScript truthiness test of a style value
Truthy(v) ==
    /\ ~IsNullish(v)
    /\ ("cs" \in DOMAIN v => v.cs # <<>>)
    /\ ("s" \in DOMAIN v => v.s # "")
    /\ ("n" \in DOMAIN v => v.n # 0)

\* the index of the entry with this key in a Map, 0 when there is none
RECURSIVE MapIndex(_, _)
MapIndex(map, key) ==
    IF map = <<>> THEN 0
    ELSE IF map[Len(map)].key = key /\ MapIndex(SubSeq(map, 1, Len(map) - 1), key) = 0
         THEN Len(map)
    ELSE MapIndex(SubSeq(map, 1, Len(map) - 1), key)

MapHas(map, key) == MapIndex(map, key) # 0

trackFonts(style, context) ==
    LET fontFamily == Get(style, "fontFamily")
        fontWeight == IF IsNullish(Get(style, "fontWeight")) THEN NumV(400)
                      ELSE style["fontWeight"]
    IN  IF ~Truthy(fontFamily) THEN context
        ELSE LET primaryFamily == StripQuotes(Trim(FirstField(fontFamily.cs)))
                 weight == IF "n" \in DOMAIN fontWeight THEN fontWeight.n
                           ELSE parseWeight(fontWeight.s)
                 at == MapIndex(context.fonts, primaryFamily)
             IN  IF primaryFamily = <<>> THEN context
                 ELSE IF at = 0
                 THEN [context EXCEPT !.fonts =
                          Append(@, [key |-> primaryFamily, weights |-> {weight}])]
                 ELSE [context EXCEPT !.fonts[at].weights = @ \cup {weight}]

\* typeof src === 'string'
IsStringSrc(src) == "scheme" \in DOMAIN src

trackImageNoDedupe(src, context) ==
    [context EXCEPT !.images =
        Append(@, [key |-> src, id |-> [img |-> Len(context.images)],
                   src |-> src, originalSrc |-> src])]

trackImage(src, context) ==
    LET size == Len(context.images)
        srcString == IF IsStringSrc(src) THEN src ELSE [async |-> size]
    IN  IF MapHas(context.images, srcString) THEN context
        ELSE [context EXCEPT !.images =
                 Append(@, [key |-> srcString,
                            id |-> [img |-> size],
                            src |-> srcString,
                            originalSrc |-> src])]

\* String(children) for the numbers of the model
NumToStr(x) == CASE x = 0 -> "0" [] x = 1 -> "1" [] x = 42 -> "42" [] OTHER -> "?"

TextLeafNoContent(content) ==
    [type |-> "text", props |-> EmptyObj, style |-> EmptyObj, children |-> <<>>]

TextLeaf(content) ==
    [type |-> "text", props |-> [content |-> StrV(content)], style |-> EmptyObj,
     children |-> <<>>]

RECURSIVE convertElement(_, _), convertChildren(_, _), convertArray(_, _)
\* Returns [node, context].  Applied to elements in which no component throws
\* (FirstThrow below finds the throw that would end the walk otherwise).
convertElement(el, context) ==
    LET unwrapped == unwrapElement(el)
        props == unwrapped.props
        elementType == getElementType(unwrapped.type)
        tailwindStyle == IF Has(props, "className") /\ props["className"] # Undefined
                            /\ props["className"].words # <<>>
                         THEN parseTailwindClasses(props["className"])
                         ELSE EmptyObj
        inlineStyle == IF Has(props, "style") THEN props["style"] ELSE EmptyObj
        mergedStyle == mergeStyles(tailwindStyle, inlineStyle)
        c1 == trackFonts(mergedStyle, context)
        c2 == IF elementType = "image" /\ Has(props, "src") /\ props["src"] # Undefined
              THEN trackImage(props["src"], c1)
              ELSE c1
        kids == convertChildren(Get(props, "children"), c2)
    IN  [node |-> [type |-> elementType,
                   props |-> extractProps(props),
                   style |-> convertStyle(mergedStyle),
                   children |-> kids.nodes],
         context |-> kids.context]

RECURSIVE convertArrayReversed(_, _)
\* the loop unshifting instead of pushing
convertArrayReversed(items, context) ==
    IF items = <<>> THEN [nodes |-> <<>>, context |-> context]
    ELSE LET first == convertChildren(Head(items), context)
             rest == convertArrayReversed(Tail(items), first.context)
         IN  [nodes |-> rest.nodes \o first.nodes, context |-> rest.context]

\* the for loop over an array child
convertArray(items, context) ==
    IF items = <<>> THEN [nodes |-> <<>>, context |-> context]
    ELSE LET first == convertChildren(Head(items), context)
             rest == convertArray(Tail(items), first.context)
         IN  [nodes |-> first.nodes \o rest.nodes, context |-> rest.context]

\* Returns [nodes, context].
convertChildren(children, context) ==
    IF IsNullish(children) \/ "b" \in DOMAIN children
    THEN [nodes |-> <<>>, context |-> context]
    ELSE IF "items" \in DOMAIN children THEN convertArray(children.items, context)
    ELSE IF isReactElement(children)
    THEN LET r == convertElement(children, context)
         IN  [nodes |-> <<r.node>>, context |-> r.context]
    ELSE IF "s" \in DOMAIN children
    THEN [nodes |-> <<TextLeaf(children.s)>>, context |-> context]
    ELSE IF "n" \in DOMAIN children
    THEN [nodes |-> <<TextLeaf(NumToStr(children.n))>>, context |-> context]
    ELSE [nodes |-> <<>>, context |-> context]

RECURSIVE FirstThrow(_), FirstThrowIn(_)
\* The first error a component throws during the walk of this child value, in
\* the walk's order (unwrap the node, then its children left to right);
\* NoError when none does.
FirstThrow(children) ==
    IF IsNullish(children) THEN NoError
    ELSE IF "items" \in DOMAIN children THEN FirstThrowIn(children.items)
    ELSE IF isReactElement(children)
    THEN LET unwrapped == unwrapElement(children)
         IN  IF IsThrow(unwrapped) THEN unwrapped.throw
             ELSE FirstThrow(Get(unwrapped.props, "children"))
    ELSE NoError

FirstThrowIn(items) ==
    IF items = <<>> THEN NoError
    ELSE IF FirstThrow(Head(items)) # NoError THEN FirstThrow(Head(items))
    ELSE FirstThrowIn(Tail(items))

\* page sizes in hundredths of a point
PageSizes ==
    [A4 |-> [width |-> 59528, height |-> 84189],
     Letter |-> [width |-> 61200, height |-> 79200]]

resolvePageSize(size) ==
    IF size = Undefined THEN PageSizes.A4
    ELSE IF "s" \in DOMAIN size
    THEN IF size.s \in DOMAIN PageSizes THEN PageSizes[size.s] ELSE PageSizes.A4
    ELSE size

\* parts[i] ?? 0
PartOr0(parts, i) == IF i <= Len(parts) THEN parts[i] ELSE 0
\* the unspecified edges filled with the default margin of a page
EdgeOr40(margin, edge) ==
    IF "edges" \in DOMAIN margin /\ edge \in DOMAIN margin.edges
    THEN margin.edges[edge] ELSE 40

\* (margin as Partial<Margin>).edge ?? 0
EdgeOr0(margin, edge) ==
    IF "edges" \in DOMAIN margin /\ edge \in DOMAIN margin.edges
    THEN margin.edges[edge] ELSE 0

\* A margin is undefined, a number [n |-> 20], a string given by the numbers
\* its whitespace-separated parts parse to [parts |-> <<10, 20>>], or a
\* partial per-edge object [edges |-> [top |-> 5]].
normalizeMargin(margin) ==
    IF margin = Undefined THEN [top |-> 0, right |-> 0, bottom |-> 0, left |-> 0]
    ELSE IF "n" \in DOMAIN margin
    THEN [top |-> margin.n, right |-> margin.n, bottom |-> margin.n, left |-> margin.n]
    ELSE IF "parts" \in DOMAIN margin /\ Len(margin.parts) = 1
    THEN [top |-> margin.parts[1], right |-> margin.parts[1],
          bottom |-> margin.parts[1], left |-> margin.parts[1]]
    ELSE IF "parts" \in DOMAIN margin /\ Len(margin.parts) = 2
    THEN [top |-> margin.parts[1], right |-> margin.parts[2],
          bottom |-> margin.parts[1], left |-> margin.parts[2]]
    ELSE IF "parts" \in DOMAIN margin /\ Len(margin.parts) = 4
    THEN [top |-> margin.parts[1], right |-> margin.parts[2],
          bottom |-> margin.parts[3], left |-> margin.parts[4]]
    ELSE [top |-> EdgeOr0(margin, "top"), right |-> EdgeOr0(margin, "right"),
          bottom |-> EdgeOr0(margin, "bottom"), left |-> EdgeOr0(margin, "left")]

convertToPage(node) ==
    LET pageSize == resolvePageSize(Get(node.props, "size"))
    IN  [size |-> IF Get(node.props, "orientation") = StrV("landscape")
                  THEN [width |-> pageSize.height, height |-> pageSize.width]
                  ELSE pageSize,
         margin |-> normalizeMargin(Get(node.props, "margin")),
         children |-> node.children]

\* the weights of a Set, sorted ascending
RECURSIVE SortedSeq(_)
SortedSeq(set) ==
    IF set = {} THEN <<>>
    ELSE LET least == CHOOSE x \in set : \A y \in set : x <= y
         IN  <<least>> \o SortedSeq(set \ {least})

NoMetadata == [absent |-> TRUE]

IRPagesEveryChild(rootNode) ==
    IF rootNode.type = "document"
    THEN [i \in 1..Len(rootNode.children) |-> convertToPage(rootNode.children[i])]
    ELSE <<convertToPage(rootNode)>>

IRPagesOf(rootNode) ==
    IF rootNode.type = "document"
    THEN LET pageKids == SelectSeq(rootNode.children, LAMBDA c : c.type = "page")
         IN  [i \in 1..Len(pageKids) |-> convertToPage(pageKids[i])]
    ELSE IF rootNode.type = "page" THEN <<convertToPage(rootNode)>>
    ELSE <<[size |-> PageSizes.A4, margin |-> normalizeMargin(NumV(40)),
            children |-> <<rootNode>>]>>

\* the metadata built for every document root
IRMetadataAlways(rootNode) ==
    IF rootNode.type = "document"
    THEN [title |-> Get(rootNode.props, "title"),
          author |-> Get(rootNode.props, "author"),
          subject |-> Get(rootNode.props, "subject"),
          creator |-> StrV("PaperFlow")]
    ELSE NoMetadata

IRMetadataOf(rootNode) ==
    IF /\ rootNode.type = "document"
       /\ \/ Truthy(Get(rootNode.props, "title"))
          \/ Truthy(Get(rootNode.props, "author"))
          \/ Truthy(Get(rootNode.props, "subject"))
    THEN [title |-> Get(rootNode.props, "title"),
          author |-> Get(rootNode.props, "author"),
          subject |-> Get(rootNode.props, "subject"),
          creator |-> StrV("PaperFlow")]
    ELSE NoMetadata

IRFontsOf(context) ==
    LET listed == [i \in 1..Len(context.fonts) |->
                     [family |-> context.fonts[i].key,
                      weights |-> SortedSeq(context.fonts[i].weights),
                      styles |-> <<"normal">>]]
    IN  IF listed = <<>>
        THEN <<[family |-> ChInter, weights |-> <<400>>, styles |-> <<"normal">>]>>
        ELSE listed

IRImagesOf(context) ==
    [i \in 1..Len(context.images) |->
        [id |-> context.images[i].id, src |-> context.images[i].src,
         originalSrc |-> context.images[i].originalSrc]]

\* reactToIR(element): [ok |-> TRUE, doc |-> IRDocument] or, when a component
\* throws during the walk, [ok |-> FALSE, error |-> the thrown value]
reactToIR(el) ==
    IF FirstThrow(el) # NoError THEN [ok |-> FALSE, error |-> FirstThrow(el)]
    ELSE LET r == convertElement(el, [fonts |-> <<>>, images |-> <<>>])
         IN  [ok |-> TRUE,
              doc |-> [version |-> 1,
                       pages |-> IRPagesOf(r.node),
                       fonts |-> IRFontsOf(r.context),
                       images |-> IRImagesOf(r.context),
                       metadata |-> IRMetadataOf(r.node)]]

\* ------------------------------------------------------------------------
\* Font resolution service
\* ------------------------------------------------------------------------
normalizeFamily(family) == SpacesToHyphen(Trim(ToLowerCase(StripQuotes(family))))

\* normalizeWeight(weight) ?? 400
normalizeWeight(weight) ==
    IF weight = Undefined THEN 400
    ELSE IF "n" \in DOMAIN weight THEN weight.n
    ELSE parseWeight(weight.s)

\* `${normalizedFamily}-${weight}-${style}`: the three parts, which the
\* string determines for the weights (positive integers) and styles used
CacheKey(normalizedFamily, weight, style) == <<normalizedFamily, weight, style>>

\* (f.weight ?? 400) and (f.style ?? 'normal') of a FontConfig
ConfigWeight(f) == IF f.weight = Undefined THEN 400 ELSE f.weight.n
ConfigStyle(f) == IF f.style = Undefined THEN "normal" ELSE f.style.s

findCustomFont(registry, family, weight, style) ==
    IF family \notin DOMAIN registry THEN Undefined
    ELSE LET fonts == registry[family]
             exact == {i \in 1..Len(fonts) :
                          ConfigWeight(fonts[i]) = weight /\ ConfigStyle(fonts[i]) = style}
         IN  IF exact # {} THEN fonts[CHOOSE i \in exact : \A j \in exact : i <= j]
             ELSE fonts[1]

\* registerFont(config) on the registry
registerFont(registry, config) ==
    LET family == normalizeFamily(config.family)
        existing == IF family \in DOMAIN registry THEN registry[family] ELSE <<>>
    IN  (family :> Append(existing, config)) @@ registry

\* the bytes the catalog serves for a key, and those behind a font URL
GoogleBytes(key) == [google |-> key]
UrlBytes(url) == [fetched |-> url]


\* loadFont with the registry looked up before the cache
loadFontBeginRegistryFirst(family, weight, style, cache, registry, owner, prev) ==
    LET normalizedFamily == normalizeFamily(family)
        cacheKey == CacheKey(normalizedFamily, weight, style)
        customFont == findCustomFont(registry, normalizedFamily, weight, style)
        base == [family |-> family, normalizedFamily |-> normalizedFamily,
                 weight |-> weight, style |-> style, key |-> cacheKey,
                 owner |-> owner, prev |-> prev, stage |-> "css",
                 config |-> Undefined, data |-> NoneV, error |-> NoError,
                 cause |-> "none", fetched |-> 0]
    IN  IF customFont # Undefined
        THEN [base EXCEPT !.stage = "custom", !.config = customFont,
                          !.fetched = IF "url" \in DOMAIN customFont.src THEN 1 ELSE 0]
        ELSE IF cacheKey \in DOMAIN cache
        THEN [base EXCEPT !.stage = "ok", !.data = cache[cacheKey]]
        ELSE [base EXCEPT !.fetched = 1]

\* A loadFont call up to its first await.  stage: "ok"/"err" settled,
\* "custom" awaiting resolveCustomFontData, "css" awaiting the stylesheet
\* request, "file" awaiting the font file request.  fetched counts the
\* fetch() requests the call has issued; cause is what made it reject.
loadFontBegin(family, weight, style, cache, registry, owner, prev) ==
    LET normalizedFamily == normalizeFamily(family)
        cacheKey == CacheKey(normalizedFamily, weight, style)
        customFont == findCustomFont(registry, normalizedFamily, weight, style)
        base == [family |-> family, normalizedFamily |-> normalizedFamily,
                 weight |-> weight, style |-> style, key |-> cacheKey,
                 owner |-> owner, prev |-> prev, stage |-> "css",
                 config |-> Undefined, data |-> NoneV, error |-> NoError,
                 cause |-> "none", fetched |-> 0]
    IN  IF cacheKey \in DOMAIN cache
        THEN [base EXCEPT !.stage = "ok", !.data = cache[cacheKey]]
        ELSE IF customFont # Undefined
        THEN [base EXCEPT !.stage = "custom", !.config = customFont,
                          !.fetched = IF "url" \in DOMAIN customFont.src THEN 1 ELSE 0]
        ELSE [base EXCEPT !.fetched = 1]

\* the wrapping catch of loadFont around loadFromGoogleFonts
FontLoadFailed(l, cause) ==
    PaperFlowError("FONT_LOAD_FAILED",
        [family |-> l.family, weight |-> l.weight, style |-> l.style,
         originalError |-> cause])

\* resolveCustomFontData's outcome: [data] or [error]
resolveCustomFontData(config, outcome) ==
    IF "buffer" \in DOMAIN config.src THEN [data |-> config.src]
    ELSE IF outcome = "ok" THEN [data |-> UrlBytes(config.src.url)]
    ELSE IF outcome = "notok"
    THEN [error |-> PaperFlowError("FONT_FETCH_ERROR",
                        [url |-> config.src.url, status |-> 404])]
    ELSE [error |-> PlainError("TypeError")]

FulfilFont(l, data) == [l EXCEPT !.stage = "ok", !.data = data]
RejectFont(l, error, cause) ==
    [l EXCEPT !.stage = "err", !.error = error, !.cause = cause]

\* the continuation of loadFont after resolveCustomFontData settles
loadFontAfterCustom(l, outcome) ==
    LET r == resolveCustomFontData(l.config, outcome)
    IN  IF "data" \in DOMAIN r THEN FulfilFont(l, r.data)
        ELSE RejectFont(l, r.error, outcome)

\* loadFromGoogleFonts up to the font file request
loadFontAfterCss(l, outcome) ==
    IF outcome = "ok" THEN [l EXCEPT !.stage = "file", !.fetched = l.fetched + 1]
    ELSE RejectFont(l, FontLoadFailed(l, outcome), outcome)

\* loadFromGoogleFonts from the font file response on, and loadFont's return
loadFontAfterFile(l, outcome) ==
    IF outcome = "ok" THEN FulfilFont(l, GoogleBytes(l.key))
    ELSE RejectFont(l, FontLoadFailed(l, outcome), outcome)

CacheAfterNoWrite(cache, l) == cache

\* fontCache.set(cacheKey, data) when the call fulfils after a miss
CacheAfter(cache, l) ==
    IF l.stage = "ok" THEN (l.key :> l.data) @@ cache ELSE cache

LoadedFont(l) ==
    [family |-> l.normalizedFamily, weight |-> l.weight, style |-> l.style,
     data |-> l.data]

Settled(l) == l.stage \in {"ok", "err"}

RemoveAt(seq, i) == SubSeq(seq, 1, i - 1) \o SubSeq(seq, i + 1, Len(seq))

\* ------------------------------------------------------------------------
\* Bulk font resolution
\* ------------------------------------------------------------------------
\* fontMap entries: [key |-> family, weights |-> a set, styles |-> the styles
\* in the order they were first added]
AddFontUse(fontMap, family, weight, style) ==
    LET at == MapIndex(fontMap, family)
    IN  IF at = 0
        THEN Append(fontMap, [key |-> family, weights |-> {weight}, styles |-> <<style>>])
        ELSE [fontMap EXCEPT ![at].weights = @ \cup {weight},
                             ![at].styles = IF \E i \in 1..Len(@) : @[i] = style
                                            THEN @ ELSE Append(@, style)]

RECURSIVE walk(_, _), walkAll(_, _)
\* walk(node) of detectFontsFromIR, returning the fontMap after it
walk(node, fontMap) ==
    LET family == Get(node.style, "fontFamily")
        weight == normalizeWeight(Get(node.style, "fontWeight"))
        style == IF Get(node.style, "fontStyle") = Undefined THEN "normal"
                 ELSE node.style["fontStyle"].s
        here == IF Truthy(family)
                THEN AddFontUse(fontMap, normalizeFamily(family.cs), weight, style)
                ELSE fontMap
    IN  walkAll(node.children, here)

walkAll(nodes, fontMap) ==
    IF nodes = <<>> THEN fontMap
    ELSE walkAll(Tail(nodes), walk(Head(nodes), fontMap))

RECURSIVE walkPages(_, _)
walkPages(pages, fontMap) ==
    IF pages = <<>> THEN fontMap
    ELSE walkPages(Tail(pages), walkAll(Head(pages).children, fontMap))

DEFAULT_FONT == <<"I", "n", "t", "e", "r">>

UsageOf(fontMap) ==
    [i \in 1..Len(fontMap) |->
        [family |-> fontMap[i].key,
         weights |-> SortedSeq(fontMap[i].weights),
         styles |-> fontMap[i].styles]]

detectFontsNoDefault(ir) == UsageOf(walkPages(ir.pages, <<>>))

detectFontsFromIR(ir) ==
    LET fontMap == walkPages(ir.pages, <<>>)
    IN  IF fontMap = <<>>
        THEN UsageOf(<<[key |-> normalizeFamily(DEFAULT_FONT), weights |-> {400},
                        styles |-> <<"normal">>]>>)
        ELSE UsageOf(fontMap)

RECURSIVE RequestsOfWeights(_, _, _), FontRequests(_)
\* the two inner loops of loadFontsForDocument for one usage entry
RequestsOfWeights(family, weights, styles) ==
    IF weights = <<>> THEN <<>>
    ELSE [i \in 1..Len(styles) |->
             [family |-> family, weight |-> Head(weights), style |-> styles[i]]]
         \o RequestsOfWeights(family, Tail(weights), styles)

\* the (family, weight, style) of the loadFont calls of loadFontsForDocument,
\* in the order of its three nested loops
FontRequests(usage) ==
    IF usage = <<>> THEN <<>>
    ELSE RequestsOfWeights(Head(usage).family, Head(usage).weights, Head(usage).styles)
         \o FontRequests(Tail(usage))

\* loadFontsForDocument up to its await: the calls it has made
loadFontsForDocumentBegin(ir, cache, registry) ==
    LET requests == FontRequests(detectFontsFromIR(ir))
    IN  [i \in 1..Len(requests) |->
            loadFontBegin(requests[i].family, requests[i].weight, requests[i].style,
                          cache, registry, "render", NoneV)]

loadFontsJoinFailFast(results) ==
    LET errors == SelectSeq(results, LAMBDA l : l.stage = "err")
        fonts == SelectSeq(results, LAMBDA l : l.stage = "ok")
    IN  IF errors # <<>> THEN [throw |-> errors[1].error]
        ELSE [fonts |-> [i \in 1..Len(fonts) |-> LoadedFont(fonts[i])]]

\* loadFontsForDocument after Promise.allSettled: [fonts] or [throw]
loadFontsForDocumentJoin(results) ==
    LET errors == SelectSeq(results, LAMBDA l : l.stage = "err")
        fonts == SelectSeq(results, LAMBDA l : l.stage = "ok")
    IN  IF fonts = <<>> /\ errors # <<>> THEN [throw |-> errors[1].error]
        ELSE [fonts |-> [i \in 1..Len(fonts) |-> LoadedFont(fonts[i])]]

\* ------------------------------------------------------------------------
\* Image loader
\* ------------------------------------------------------------------------
\* arr[i] of a Uint8Array, -1 standing for undefined
ByteAt(arr, i) == IF i < Len(arr) THEN arr[i + 1] ELSE -1

\* text.includes(pattern) on the bytes of the text
Includes(arr, pattern) ==
    \E i \in 0..(Len(arr) - Len(pattern)) :
        SubSeq(arr, i + 1, i + Len(pattern)) = pattern

detectImageFormatRiffOnly(arr) ==
    LET text == SubSeq(arr, 1, IF Len(arr) < 100 THEN Len(arr) ELSE 100)
    IN  IF ByteAt(arr, 0) = 137 /\ ByteAt(arr, 1) = 80 /\ ByteAt(arr, 2) = 78
           /\ ByteAt(arr, 3) = 71
        THEN [format |-> "png"]
        ELSE IF ByteAt(arr, 0) = 255 /\ ByteAt(arr, 1) = 216 /\ ByteAt(arr, 2) = 255
        THEN [format |-> "jpeg"]
        ELSE IF ByteAt(arr, 0) = 82 /\ ByteAt(arr, 1) = 73 /\ ByteAt(arr, 2) = 70
                /\ ByteAt(arr, 3) = 70
        THEN [format |-> "webp"]
        ELSE IF ByteAt(arr, 0) = 71 /\ ByteAt(arr, 1) = 73 /\ ByteAt(arr, 2) = 70
                /\ ByteAt(arr, 3) = 56
        THEN [format |-> "gif"]
        ELSE IF Includes(text, <<60, 63, 120, 109, 108>>)
                \/ Includes(text, <<60, 115, 118, 103>>)
        THEN [format |-> "svg"]
        ELSE [throw |-> PaperFlowError("UNKNOWN_IMAGE_FORMAT",
                            [firstBytes |-> SubSeq(arr, 1, IF Len(arr) < 8 THEN Len(arr) ELSE 8)])]

detectImageFormat(arr) ==
    LET text == SubSeq(arr, 1, IF Len(arr) < 100 THEN Len(arr) ELSE 100)
    IN  IF ByteAt(arr, 0) = 137 /\ ByteAt(arr, 1) = 80 /\ ByteAt(arr, 2) = 78
           /\ ByteAt(arr, 3) = 71
        THEN [format |-> "png"]
        ELSE IF ByteAt(arr, 0) = 255 /\ ByteAt(arr, 1) = 216 /\ ByteAt(arr, 2) = 255
        THEN [format |-> "jpeg"]
        ELSE IF ByteAt(arr, 0) = 82 /\ ByteAt(arr, 1) = 73 /\ ByteAt(arr, 2) = 70
                /\ ByteAt(arr, 3) = 70 /\ ByteAt(arr, 8) = 87 /\ ByteAt(arr, 9) = 69
                /\ ByteAt(arr, 10) = 66 /\ ByteAt(arr, 11) = 80
        THEN [format |-> "webp"]
        ELSE IF ByteAt(arr, 0) = 71 /\ ByteAt(arr, 1) = 73 /\ ByteAt(arr, 2) = 70
                /\ ByteAt(arr, 3) = 56
        THEN [format |-> "gif"]
        ELSE IF Includes(text, <<60, 63, 120, 109, 108>>)
                \/ Includes(text, <<60, 115, 118, 103>>)
        THEN [format |-> "svg"]
        ELSE [throw |-> PaperFlowError("UNKNOWN_IMAGE_FORMAT",
                            [firstBytes |-> SubSeq(arr, 1, IF Len(arr) < 8 THEN Len(arr) ELSE 8)])]

\* generateImageId: a hash of the source, kept as the source it is a hash of
generateImageId(source) == [img_ |-> source]

Loaded(image) == [ok |-> TRUE, image |-> image]
Failed(error) == [ok |-> FALSE, error |-> error]

loadFromBuffer(buffer) ==
    LET format == detectImageFormat(buffer.bytes)
    IN  IF IsThrow(format) THEN Failed(format.throw)
        ELSE Loaded([id |-> generateImageId(buffer), data |-> buffer,
                     format |-> format.format])

\* the bodies a server answers with
PngBody == <<137, 80, 78, 71, 13, 10, 26, 10>>
GarbageBody == <<0, 1, 2, 3>>

\* loadFromUrl from the response on; outcome is the body served, a
\* non-success status ("notok") or a rejected request ("reject")
loadFromUrlAfterFetch(url, outcome) ==
    IF outcome = "notok"
    THEN Failed(PaperFlowError("IMAGE_LOAD_FAILED", [url |-> url, status |-> 404]))
    ELSE IF outcome = "reject"
    THEN Failed(PaperFlowError("IMAGE_FETCH_ERROR", [url |-> url]))
    ELSE LET data == [bytes |-> IF outcome = "png" THEN PngBody ELSE GarbageBody]
             format == detectImageFormat(data.bytes)
         IN  IF IsThrow(format) THEN Failed(format.throw)
             ELSE Loaded([id |-> generateImageId(url), data |-> data,
                          format |-> format.format])

IsHttpUrl(src) == IsStringSrc(src) /\ src.scheme \in {"http", "https"}

\* a string that starts with "data:", kept by its parts:
\* data:<type>/<subtype>[;base64],<payload>.  The payload is "empty", text
\* that atob decodes to the bytes given ("base64"), or text that atob
\* rejects ("notbase64").
DataUri(type, subtype, base64, payload) ==
    [scheme |-> "data", type |-> type, subtype |-> subtype, base64 |-> base64,
     payload |-> payload]

IsDataUri(src) == IsStringSrc(src) /\ src.scheme = "data"

\* \w of a regular expression
IsWordChar(c) ==
    c \in {"a", "b", "c", "d", "e", "f", "g", "h", "i", "j", "k", "l", "m", "n", "o",
           "p", "q", "r", "s", "t", "u", "v", "w", "x", "y", "z", "A", "B", "C", "D",
           "E", "F", "G", "H", "I", "J", "K", "L", "M", "N", "O", "P", "Q", "R", "S",
           "T", "U", "V", "W", "X", "Y", "Z", "0", "1", "2", "3", "4", "5", "6", "7",
           "8", "9", "_"}

\* dataUri.match(/^data:image\/(\w+);base64,(.+)$/) finds a match
DataUriMatches(src) ==
    /\ src.type = "image"
    /\ src.subtype # <<>>
    /\ \A i \in 1..Len(src.subtype) : IsWordChar(src.subtype[i])
    /\ src.base64
    /\ src.payload.kind # "empty"

normalizeFormat(format) ==
    LET normalized == ToLowerCase(format)
    IN  IF normalized = <<"p", "n", "g">> THEN "png"
        ELSE IF normalized \in {<<"j", "p", "g">>, <<"j", "p", "e", "g">>} THEN "jpeg"
        ELSE IF normalized = <<"w", "e", "b", "p">> THEN "webp"
        ELSE IF normalized = <<"g", "i", "f">> THEN "gif"
        ELSE IF normalized \in {<<"s", "v", "g">>,
                                <<"s", "v", "g", "+", "x", "m", "l">>} THEN "svg"
        ELSE "png"

loadFromDataUri(dataUri) ==
    IF ~DataUriMatches(dataUri)
    THEN Failed(PaperFlowError("INVALID_BASE64_IMAGE", [dataUri |-> dataUri]))
    ELSE IF dataUri.payload.kind = "notbase64"
    THEN Failed(PlainError("InvalidCharacterError"))
    ELSE Loaded([id |-> generateImageId(dataUri),
                 data |-> [bytes |-> dataUri.payload.bytes],
                 format |-> normalizeFormat(dataUri.subtype)])

loadImageBeginAnyString(src, cache) ==
    IF "deferred" \in DOMAIN src THEN [kind |-> "await"]
    ELSE IF "bytes" \in DOMAIN src
    THEN [kind |-> "done", hit |-> FALSE, result |-> loadFromBuffer(src)]
    ELSE IF IsDataUri(src)
    THEN [kind |-> "done", hit |-> FALSE, result |-> loadFromDataUri(src)]
    ELSE IF src \in DOMAIN cache
    THEN [kind |-> "done", hit |-> TRUE, result |-> Loaded(cache[src])]
    ELSE [kind |-> "fetch", url |-> src]

\* loadImage up to its first await: it has settled ("done"), it awaits the
\* function source ("await"), or it awaits the request for a URL ("fetch")
loadImageBegin(src, cache) ==
    IF "deferred" \in DOMAIN src THEN [kind |-> "await"]
    ELSE IF "bytes" \in DOMAIN src
    THEN [kind |-> "done", hit |-> FALSE, result |-> loadFromBuffer(src)]
    ELSE IF IsDataUri(src)
    THEN [kind |-> "done", hit |-> FALSE, result |-> loadFromDataUri(src)]
    ELSE IF IsHttpUrl(src)
    THEN IF src \in DOMAIN cache
         THEN [kind |-> "done", hit |-> TRUE, result |-> Loaded(cache[src])]
         ELSE [kind |-> "fetch", url |-> src]
    ELSE IF IsStringSrc(src)
    THEN [kind |-> "done", hit |-> FALSE,
          result |-> Failed(PaperFlowError("LOCAL_FILE_NOT_SUPPORTED", [src |-> src]))]
    ELSE [kind |-> "done", hit |-> FALSE,
          result |-> Failed(PaperFlowError("INVALID_IMAGE_SOURCE", [src |-> src]))]

\* ------------------------------------------------------------------------
\* render
\* ------------------------------------------------------------------------
getEngine(name) ==
    IF name = "satori" THEN [engine |-> "SatoriEngine"]
    ELSE IF name = "browser"
    THEN [throw |-> PaperFlowError("UNKNOWN_ENGINE",
                        [engine |-> name, available |-> <<"satori">>])]
    ELSE [throw |-> PaperFlowError("UNKNOWN_ENGINE",
                        [engine |-> name, available |-> <<"satori", "browser">>])]

createRenderResult(buffer, ir) ==
    [buffer |-> buffer, pages |-> Len(ir.pages),
     metadata |-> [title |-> IF ir.metadata = NoMetadata THEN Undefined
                             ELSE ir.metadata.title,
                   author |-> IF ir.metadata = NoMetadata THEN Undefined
                              ELSE ir.metadata.author]]

renderCatchRethrow(error) == error

\* the catch block of render
renderCatch(error) ==
    IF error.pf THEN error
    ELSE PaperFlowError("RENDER_FAILED", [originalError |-> error.code])

MapSet(map, key, value) ==
    IF MapHas(map, key) THEN [map EXCEPT ![MapIndex(map, key)].value = value]
    ELSE Append(map, [key |-> key, value |-> value])

renderImageResultAlways(images, imageUsage, result) ==
    MapSet(images, imageUsage.id, result)

\* one iteration of the image loop of render, given how loadImage settled
renderImageResult(images, imageUsage, result) ==
    IF result.ok THEN MapSet(images, imageUsage.id, result.image) ELSE images

\* ------------------------------------------------------------------------
\* SatoriEngine: the image case of irNodeToSatoriElement
\* ------------------------------------------------------------------------
\* images.get(key)
MapGet(map, key) ==
    IF MapHas(map, key) THEN map[MapIndex(map, key)].value ELSE Undefined

\* `img-${Array.from(images.keys()).indexOf(src)}`
satoriImageId(images, src) == [img |-> MapIndex(images, src) - 1]

satoriLoadedImage(node, images) ==
    MapGet(images, satoriImageId(images, Get(node.props, "src")))

\* arrayBufferToDataUri(data, format)
arrayBufferToDataUri(data, format) == [dataUri |-> data, format |-> format]

\* the src of the img element the engine builds for an image node
satoriImageSrc(node, images) ==
    LET loadedImage == satoriLoadedImage(node, images)
    IN  IF loadedImage # Undefined
        THEN arrayBufferToDataUri(loadedImage.data, loadedImage.format)
        ELSE Get(node.props, "src")

NoWait == [kind |-> "none"]

RunIdle ==
    [pc |-> "idle", requested |-> <<>>, fonts |-> <<>>, images |-> <<>>, idx |-> 1,
     wait |-> NoWait, loads |-> <<>>, result |-> NoneV, caught |-> NoError]

RenderIdle ==
    /\ imageCache = EmptyObj
    /\ options = [engine |-> "satori"]
    /\ run = RunIdle
    /\ unwrapping = UnwrapIdle
    /\ imageLoads = <<>>
    /\ lastImage = NoneV

\* render rejects: its catch block has run on the error thrown inside
Rejected(r, error) ==
    [r EXCEPT !.pc = "rejected", !.caught = error, !.result = renderCatch(error)]

\* ------------------------------------------------------------------------
\* PaperFlow.pdfs.create
\* ------------------------------------------------------------------------
\* { engine: this.config.engine, ...options }
mergedOptions(config, opts) == Spread([engine |-> Get(config, "engine")], opts)

\* the catch block of createPdf
createPdfCatch(err) ==
    IF err.pf THEN err
    ELSE PaperFlowError("RENDER_FAILED", [originalError |-> err])

\* createPdf without its try: what render throws goes to the caller
createPdfNoCatch(r) ==
    IF r.pc = "done"
    THEN [settled |-> "fulfilled", data |-> r.result, error |-> Null]
    ELSE [settled |-> "rejected", reason |-> r.result]

\* createPdf from the settling of the render call it awaits: r is that call,
\* returned (r.result its RenderResult) or rejected (r.result what it threw)
createPdf(r) ==
    IF r.pc = "done"
    THEN [settled |-> "fulfilled", data |-> r.result, error |-> Null]
    ELSE [settled |-> "fulfilled", data |-> Null, error |-> createPdfCatch(r.result)]

\* the loadImage call of the current iteration has settled
FinishLoad(r, ir, result, fetches, hit) ==
    LET imageUsage == ir.images[r.idx]
    IN  [r EXCEPT !.images = renderImageResult(@, imageUsage, result),
                  !.idx = @ + 1,
                  !.wait = NoWait,
                  !.loads = Append(@, [id |-> imageUsage.id,
                                       src |-> imageUsage.originalSrc,
                                       fetches |-> fetches, hit |-> hit,
                                       ok |-> result.ok])]

\* loadImage(src) has run up to its first await
AfterImageBegin(r, ir, src, cache) ==
    LET b == loadImageBegin(src, cache)
    IN  IF b.kind = "done" THEN FinishLoad(r, ir, b.result, 0, b.hit)
        ELSE IF b.kind = "fetch" THEN [r EXCEPT !.wait = b]
        ELSE [r EXCEPT !.wait = [kind |-> "await", src |-> src]]

\* render from its call to the await of loadFontsForDocument
StartRender ==
    /\ run.pc \in {"idle", "done", "rejected"}
    /\ irDoc' = reactToIR(element)
    /\ IF ~irDoc'.ok
       THEN /\ run' = Rejected(RunIdle, irDoc'.error)
            /\ UNCHANGED fontLoads
       ELSE IF irDoc'.doc.pages = <<>>
       THEN /\ run' = Rejected(RunIdle, PaperFlowError("NO_PAGES",
                          [suggestion |-> "Add at least one <Page>"]))
            /\ UNCHANGED fontLoads
       ELSE /\ fontLoads' = loadFontsForDocumentBegin(irDoc'.doc, fontCache, customFonts)
            /\ run' = [RunIdle EXCEPT !.pc = "fonts",
                          !.requested = [i \in 1..Len(fontLoads') |->
                              [family |-> fontLoads'[i].family,
                               weight |-> fontLoads'[i].weight,
                               style |-> fontLoads'[i].style]]]
    /\ UNCHANGED <<element, unwrapping, fontCache, customFonts, lastCall, lastOk,
                   pairLog, imageCache, options, imgVars>>

\* Promise.allSettled has settled: loadFontsForDocument returns or throws,
\* and render goes on to the image loop
FontsJoin ==
    /\ run.pc = "fonts"
    /\ \A i \in 1..Len(fontLoads) : Settled(fontLoads[i])
    /\ LET joined == loadFontsForDocumentJoin(fontLoads)
       IN  run' = IF IsThrow(joined) THEN Rejected(run, joined.throw)
                  ELSE [run EXCEPT !.pc = "images", !.fonts = joined.fonts]
    /\ fontLoads' = <<>>
    /\ UNCHANGED <<convVars, fontCache, customFonts, lastCall, lastOk, pairLog,
                   imageCache, options, imgVars>>

\* the next iteration of the image loop calls loadImage
ImageBegin ==
    /\ run.pc = "images"
    /\ run.wait = NoWait
    /\ run.idx <= Len(irDoc.doc.images)
    /\ run' = AfterImageBegin(run, irDoc.doc, irDoc.doc.images[run.idx].originalSrc,
                              imageCache)
    /\ UNCHANGED <<convVars, fontVars, imageCache, options, imgVars>>

\* the function source settles; loadImage calls itself on what it resolved to
ImageDeferredDone ==
    /\ run.pc = "images"
    /\ run.wait.kind = "await"
    /\ \E outcome \in {"resolve", "reject"} :
          run' = IF outcome = "reject"
                 THEN FinishLoad(run, irDoc.doc, Failed(PlainError("Error")), 0, FALSE)
                 ELSE AfterImageBegin(run, irDoc.doc, run.wait.src.deferred, imageCache)
    /\ UNCHANGED <<convVars, fontVars, imageCache, options, imgVars>>

\* the request of loadFromUrl settles
ImageFetchDone ==
    /\ run.pc = "images"
    /\ run.wait.kind = "fetch"
    /\ \E outcome \in {"png", "garbage", "notok", "reject"} :
          LET result == loadFromUrlAfterFetch(run.wait.url, outcome)
          IN  /\ imageCache' = IF result.ok
                               THEN (run.wait.url :> result.image) @@ imageCache
                               ELSE imageCache
              /\ run' = FinishLoad(run, irDoc.doc, result, 1, FALSE)
    /\ UNCHANGED <<convVars, fontVars, options, imgVars>>

\* the image loop is over: render builds the context and calls getEngine
GetEngine ==
    /\ run.pc = "images"
    /\ run.wait = NoWait
    /\ run.idx > Len(irDoc.doc.images)
    /\ LET engine == getEngine(options.engine)
       IN  run' = IF IsThrow(engine) THEN Rejected(run, engine.throw)
                  ELSE [run EXCEPT !.pc = "engine"]
    /\ UNCHANGED <<convVars, fontVars, imageCache, options, imgVars>>

\* engine.render(context) settles, and render returns or rejects
EngineRender ==
    /\ run.pc = "engine"
    /\ \E outcome \in {"ok", "throw"} :
          run' = IF outcome = "throw" THEN Rejected(run, PlainError("Error"))
                 ELSE [run EXCEPT !.pc = "done",
                          !.result = createRenderResult(
                              [pdf |-> Len(irDoc.doc.pages)], irDoc.doc)]
    /\ UNCHANGED <<convVars, fontVars, imageCache, options, imgVars>>

\* ------------------------------------------------------------------------
\* SpecFont: direct callers of loadFont, registerFont and clearFontCache
\* ------------------------------------------------------------------------
MaxInFlight == 2
MaxRegistered == 2

FontFamilies == {ChLatoQuoted}
FontWeights == {400, 700}
FontStyles == {"normal"}

FontConfigs ==
    {[family |-> ChLato, weight |-> Undefined, style |-> Undefined,
      src |-> [buffer |-> "lato.ttf"]],
     [family |-> ChLato, weight |-> NumV(700), style |-> Undefined,
      src |-> [url |-> "https://cdn/lato-bold.woff2"]]}

FontIdle ==
    /\ fontCache = EmptyObj
    /\ customFonts = EmptyObj
    /\ fontLoads = <<>>
    /\ lastCall = NoneV
    /\ lastOk = EmptyObj
    /\ pairLog = NoneV

\* what a settled call of a direct caller leaves in the observation variables
ObserveSettled(l) ==
    /\ lastCall' = [family |-> l.family, weight |-> l.weight, style |-> l.style,
                    stage |-> l.stage, error |-> l.error, cause |-> l.cause]
    /\ lastOk' = IF l.stage = "ok"
                 THEN (l.key :> [data |-> l.data, fetched |-> l.fetched]) @@ lastOk
                 ELSE lastOk
    /\ pairLog' = IF l.stage = "ok" /\ l.prev # NoneV
                  THEN [first |-> l.prev,
                        second |-> [data |-> l.data, fetched |-> l.fetched]]
                  ELSE pairLog

\* a step of call i that leaves it as l: a direct caller's call returns when
\* it settles, a render's call stays for the allSettled join
Advance(i, l) ==
    /\ fontCache' = IF l.stage = "ok" THEN CacheAfter(fontCache, l) ELSE fontCache
    /\ IF l.owner = "client" /\ Settled(l)
       THEN /\ fontLoads' = RemoveAt(fontLoads, i)
            /\ ObserveSettled(l)
       ELSE /\ fontLoads' = [fontLoads EXCEPT ![i] = l]
            /\ UNCHANGED <<lastCall, lastOk, pairLog>>

RegisterFont ==
    \E config \in FontConfigs :
        /\ \A f \in DOMAIN customFonts : Len(customFonts[f]) < MaxRegistered
        /\ customFonts' = registerFont(customFonts, config)
        /\ UNCHANGED <<convVars, renderVars, fontCache, fontLoads, lastCall, lastOk, pairLog, imgVars>>

ClearFontCache ==
    /\ fontCache' = EmptyObj
    /\ lastOk' = EmptyObj
    /\ fontLoads' = [i \in 1..Len(fontLoads) |-> [fontLoads[i] EXCEPT !.prev = NoneV]]
    /\ UNCHANGED <<convVars, renderVars, customFonts, lastCall, pairLog, imgVars>>

CallLoadFont ==
    \E family \in FontFamilies, weight \in FontWeights, style \in FontStyles :
        LET key == CacheKey(normalizeFamily(family), weight, style)
            prev == IF key \in DOMAIN lastOk THEN lastOk[key] ELSE NoneV
            l == loadFontBegin(family, weight, style, fontCache, customFonts,
                               "client", prev)
        IN  /\ Len(fontLoads) < MaxInFlight
            /\ IF Settled(l)
               THEN /\ ObserveSettled(l)
                    /\ UNCHANGED <<fontLoads, fontCache>>
               ELSE /\ fontLoads' = Append(fontLoads, l)
                    /\ UNCHANGED <<fontCache, lastCall, lastOk, pairLog>>
            /\ UNCHANGED <<convVars, renderVars, customFonts, imgVars>>

FontCustomStep ==
    \E i \in 1..Len(fontLoads), outcome \in {"ok", "notok", "reject"} :
        /\ fontLoads[i].stage = "custom"
        /\ "buffer" \in DOMAIN fontLoads[i].config.src => outcome = "ok"
        /\ Advance(i, loadFontAfterCustom(fontLoads[i], outcome))
        /\ UNCHANGED <<convVars, renderVars, customFonts, imgVars>>

FontCssStep ==
    \E i \in 1..Len(fontLoads), outcome \in {"ok", "notok", "reject", "nourl"} :
        /\ fontLoads[i].stage = "css"
        /\ Advance(i, loadFontAfterCss(fontLoads[i], outcome))
        /\ UNCHANGED <<convVars, renderVars, customFonts, imgVars>>

FontFileStep ==
    \E i \in 1..Len(fontLoads), outcome \in {"ok", "notok", "reject"} :
        /\ fontLoads[i].stage = "file"
        /\ Advance(i, loadFontAfterFile(fontLoads[i], outcome))
        /\ UNCHANGED <<convVars, renderVars, customFonts, imgVars>>

InitFont ==
    /\ element = NoneV
    /\ irDoc = NotRun
    /\ FontIdle
    /\ RenderIdle

NextFont ==
    \/ RegisterFont
    \/ ClearFontCache
    \/ CallLoadFont
    \/ FontCustomStep
    \/ FontCssStep
    \/ FontFileStep

SpecFont == InitFont /\ [][NextFont]_vars

\* ------------------------------------------------------------------------
\* Input universe
\* ------------------------------------------------------------------------
MaxTokens == 2
MaxKids == 2

RECURSIVE SeqsUpTo(_, _)
\* the sequences over S of length at most n
SeqsUpTo(S, n) ==
    IF n = 0 THEN {<<>>}
    ELSE LET shorter == SeqsUpTo(S, n - 1)
         IN  shorter \cup {Append(q, x) : q \in shorter, x \in S}

Tokens ==
    {<<"text", "black">>, <<"text", "white">>, <<"font", "bold">>, <<"font", "lato">>,
     <<"italic">>, <<"p", "4">>, <<"gap", "x", "4">>, <<"gap", "y", "2">>,
     <<"unknown", "class">>}

\* class strings: up to MaxTokens tokens, and one with surrounding whitespace
ClassNames ==
    {[words |-> w] :
        w \in SeqsUpTo(Tokens, MaxTokens) \cup {<< <<>>, <<"text", "black">>, <<>> >>}}

Absent == [absent |-> TRUE]

\* explicit style maps: each property is absent or has one of its values
InlineStyles ==
    LET choice == [color : {Absent, StrV("#ff0000"), Undefined},
                   fontWeight : {Absent, NumV(400), StrV("bold")},
                   fontFamily : {Absent, CharsV(ChLato), CharsV(ChLatoLower)}]
        keysOf(c) == {k \in {"color", "fontWeight", "fontFamily"} : c[k] # Absent}
    IN  {[k \in keysOf(c) |-> c[k]] : c \in choice}

UrlA == [scheme |-> "https", rest |-> "a.png"]
UrlB == [scheme |-> "https", rest |-> "b.png"]
LocalPath == [scheme |-> "", rest |-> "logo.png"]

StyledText(className, style) ==
    Elem(FnT("Text"),
         Spread(Spread([children |-> StrV("Hello")],
                       IF className = Absent THEN EmptyObj
                       ELSE [className |-> className]),
                IF style = Absent THEN EmptyObj ELSE [style |-> style]))

ImageOf(src) == Elem(FnT("Image"), [src |-> src])

\* the children a page of the structured documents is built from
Leaves ==
    {StrV("Hello"),
     StyledText(Absent, Absent),
     StyledText(Absent, [fontFamily |-> CharsV(ChLato), fontWeight |-> NumV(700)]),
     StyledText([words |-> <<<<"italic">>>>],
                [fontFamily |-> CharsV(ChLatoLower), fontStyle |-> StrV("italic")]),
     StyledText([words |-> <<<<"font", "inter">>>>], Absent),
     ImageOf(UrlA),
     ImageOf(UrlB),
     ImageOf(LocalPath)}

Kids == SeqsUpTo(Leaves, MaxKids)

ChildrenOf(kids) ==
    IF kids = <<>> THEN Undefined
    ELSE IF Len(kids) = 1 THEN kids[1]
    ELSE [items |-> kids]

PageOf(kids) == Elem(FnT("Page"), [children |-> ChildrenOf(kids)])
DocOf(pages, props) ==
    Elem(FnT("Document"), Spread(props, [children |-> ChildrenOf(pages)]))

\* one styled text on one page: every class string with every style map
SingleNodeTrees ==
    {DocOf(<<PageOf(<<StyledText(c, st)>>)>>, EmptyObj) :
        c \in ClassNames \cup {Absent}, st \in InlineStyles \cup {Absent}}

\* documents, bare pages and bare content over the page children
StructuredTrees ==
    UNION {
      {DocOf(<<PageOf(k)>>, [title |-> StrV("Report"), author |-> StrV("Ann")]),
       DocOf(<<PageOf(k), PageOf(<<>>)>>, EmptyObj),
       DocOf(<<Elem(FnT("View"), [children |-> ChildrenOf(k)]), PageOf(k)>>, EmptyObj),
       PageOf(k),
       Elem(FnT("View"), [children |-> ChildrenOf(k)]),
       Elem(FnT("Wrapper"), [children |-> ChildrenOf(k)])} : k \in Kids}
    \cup {DocOf(<<>>, EmptyObj),
          DocOf(<<Elem(FnT("Boom"), EmptyObj)>>, EmptyObj),
          Elem(FnT("Nothing"), EmptyObj)}

\* margins: numbers, strings of one to five parts, partial per-edge objects
Edges == {"top", "right", "bottom", "left"}

Margins ==
    LET choice == [Edges -> {Absent, NumV(5), NumV(7)}]
    IN  {NumV(0), NumV(20)}
        \cup {[parts |-> p] : p \in (SeqsUpTo({10, 20}, 5) \ {<<>>})
                                      \cup {<<10, 20, 30, 40>>}}
        \cup {[edges |-> [e \in {x \in Edges : c[x] # Absent} |-> c[e].n]] :
                 c \in choice}

\* one page with a margin; the last is the intrinsic page element, which
\* has no margin property
MarginTrees ==
    {DocOf(<<Elem(FnT("Page"), [margin |-> m, children |-> StrV("Hello")])>>,
           EmptyObj) : m \in Margins}
    \cup {DocOf(<<Elem(TagT(ELEMENT_TYPES.PAGE), [children |-> StrV("Hello")])>>,
                EmptyObj)}

\* font declarations in other spellings and places: a family stack, a quoted
\* family, a family of two words, and a family declared on the page itself
FontTrees ==
    {DocOf(<<PageOf(<<StyledText(Absent, [fontFamily |-> CharsV(f)])>>)>>, EmptyObj) :
        f \in {ChLatoList, ChLatoQuoted, ChOpenSans}}
    \cup {DocOf(<<PageOf(<<StyledText(Absent, [fontFamily |-> CharsV(ChLato)]),
                           StyledText(Absent, [fontFamily |-> CharsV(f),
                                               fontWeight |-> NumV(700)])>>)>>,
                EmptyObj) : f \in {ChLatoQuoted, ChLatoLower}}
    \cup {DocOf(<<Elem(FnT("Page"), [style |-> [fontFamily |-> CharsV(ChLato)],
                                     children |-> StrV("Hello")])>>, EmptyObj)}

\* child values of every kind: nothing, booleans, strings, numbers, an
\* element, and arrays nested to two levels
MaxChildren == 2

NestedArray ==
    [items |-> <<StrV("Hello"), Null,
                 [items |-> <<NumV(1), [b |-> FALSE], StyledText(Absent, Absent),
                              [items |-> <<StrV("deep")>>]>>],
                 NumV(42)>>]

ChildValues ==
    {Null, Undefined, [b |-> TRUE], [b |-> FALSE], StrV("Hello"), StrV(""), NumV(0),
     NumV(42), StyledText(Absent, Absent), ImageOf(UrlA), [items |-> <<>>], NestedArray}

ChildTrees ==
    {DocOf(<<Elem(FnT("Page"), [children |-> v])>>, EmptyObj) : v \in ChildValues}
    \cup {DocOf(<<Elem(FnT("Page"), [children |-> [items |-> k]])>>, EmptyObj) :
             k \in SeqsUpTo(ChildValues, MaxChildren)}
    \cup {Elem(FnT("View"), [children |-> [items |-> k]]) :
             k \in SeqsUpTo(ChildValues, MaxChildren)}

ConvTrees ==
    SingleNodeTrees \cup StructuredTrees \cup MarginTrees \cup FontTrees \cup ChildTrees

\* ------------------------------------------------------------------------
\* SpecConv: reactToIR applied to one element
\* ------------------------------------------------------------------------
InitConv ==
    /\ element \in ConvTrees
    /\ irDoc = NotRun
    /\ FontIdle
    /\ RenderIdle

Convert ==
    /\ irDoc = NotRun
    /\ irDoc' = reactToIR(element)
    /\ UNCHANGED <<element, unwrapping, fontVars, renderVars, imgVars>>

NextConv == Convert

SpecConv == InitConv /\ [][NextConv]_vars

Converted == "ok" \in DOMAIN irDoc /\ irDoc.ok

\* ------------------------------------------------------------------------
\* SpecRender: render calls, one at a time, over the module-level caches
\* ------------------------------------------------------------------------
DeferredA == [deferred |-> UrlA]

RenderLeaves ==
    {StyledText(Absent, Absent),
     StyledText(Absent, [fontFamily |-> CharsV(ChLato), fontWeight |-> NumV(700)]),
     StyledText([words |-> <<<<"italic">>>>],
                [fontFamily |-> CharsV(ChLatoLower), fontStyle |-> StrV("italic")]),
     ImageOf(UrlA),
     ImageOf(LocalPath),
     ImageOf(DeferredA)}

\* children without fonts or images, for the roots of other shapes
PlainKids == SeqsUpTo({StrV("Hello"), StyledText(Absent, Absent)}, MaxKids)

\* roots that are no one-page document: two pages and metadata, a page next
\* to other content, a bare page, bare content, a caller's own component
OtherRoots ==
    UNION {
      {DocOf(<<PageOf(k), PageOf(<<>>)>>,
             [title |-> StrV("Report"), author |-> StrV("Ann"), subject |-> StrV("Q3")]),
       DocOf(<<Elem(FnT("View"), [children |-> ChildrenOf(k)]), PageOf(k)>>,
             [title |-> StrV("Report")]),
       PageOf(k),
       Elem(FnT("View"), [children |-> ChildrenOf(k)]),
       Elem(FnT("Wrapper"), [children |-> ChildrenOf(k)])} : k \in PlainKids}

\* one-page documents with each choice of title, author and subject, the
\* empty title among them
MetadataDocs ==
    LET choice == [title : {Absent, StrV(""), StrV("Report")},
                   author : {Absent, StrV("Ann")},
                   subject : {Absent, StrV("Q3")}]
        keysOf(c) == {k \in {"title", "author", "subject"} : c[k] # Absent}
    IN  {DocOf(<<PageOf(<<StrV("Hello")>>)>>, [k \in keysOf(c) |-> c[k]]) :
            c \in choice}

RenderTrees ==
    {DocOf(<<PageOf(k)>>, EmptyObj) : k \in SeqsUpTo(RenderLeaves, MaxKids)}
    \cup {DocOf(<<>>, EmptyObj), DocOf(<<Elem(FnT("Boom"), EmptyObj)>>, EmptyObj)}
    \cup OtherRoots
    \cup MetadataDocs

EngineNames == {"satori", "browser"}

\* the font registered before the renders in some of the runs
LatoFromUrl ==
    [family |-> ChLato, weight |-> NumV(700), style |-> Undefined,
     src |-> [url |-> "https://cdn/lato-bold.woff2"]]

InitRender ==
    /\ element \in RenderTrees
    /\ irDoc = NotRun
    /\ fontCache = EmptyObj
    /\ \/ customFonts = EmptyObj
       \/ customFonts = registerFont(EmptyObj, LatoFromUrl)
    /\ fontLoads = <<>>
    /\ lastCall = NoneV
    /\ lastOk = EmptyObj
    /\ pairLog = NoneV
    /\ imageCache = EmptyObj
    /\ options \in {[engine |-> e] : e \in EngineNames}
    /\ run = RunIdle
    /\ unwrapping = UnwrapIdle
    /\ imageLoads = <<>>
    /\ lastImage = NoneV

NextRender ==
    \/ StartRender
    \/ FontCustomStep
    \/ FontCssStep
    \/ FontFileStep
    \/ FontsJoin
    \/ ImageBegin
    \/ ImageDeferredDone
    \/ ImageFetchDone
    \/ GetEngine
    \/ EngineRender

SpecRender == InitRender /\ [][NextRender]_vars

\* ------------------------------------------------------------------------
\* SpecUnwrap: unwrapElement, one loop iteration at a time
\* ------------------------------------------------------------------------
IterationsWrap == 3

UnwrapProps ==
    {EmptyObj,
     [children |-> StrV("Hello")],
     [children |-> StyledText(Absent, Absent)],
     [src |-> UrlA],
     [className |-> [words |-> <<<<"font", "bold">>>>]]}

UnwrapInputs ==
    {Elem(FnT(c), props) : c \in LibraryComponents \cup UserComponents,
                           props \in UnwrapProps}
    \cup {Elem(TagT(ELEMENT_TYPES.VIEW), props) : props \in UnwrapProps}

InitUnwrap ==
    /\ element = NoneV
    /\ irDoc = NotRun
    /\ FontIdle
    /\ RenderIdle

\* unwrapElement(element) is called: let current = element
UnwrapCall ==
    /\ unwrapping.pc \in {"idle", "returned", "threw"}
    /\ \E el \in UnwrapInputs :
          /\ element' = el
          /\ unwrapping' = [pc |-> "loop", current |-> el, iterations |-> 0]
    /\ UNCHANGED <<irDoc, fontVars, imageCache, options, run, imgVars>>

UnwrapStep ==
    /\ unwrapping.pc = "loop"
    /\ unwrapping' = unwrapIteration(unwrapping, IterationsWrap)
    /\ UNCHANGED <<element, irDoc, fontVars, imageCache, options, run, imgVars>>

NextUnwrap ==
    \/ UnwrapCall
    \/ UnwrapStep

SpecUnwrap == InitUnwrap /\ [][NextUnwrap]_vars

\* the loop runs on as long as its condition holds: the function component is
\* called synchronously, nothing else is scheduled between two iterations
SpecUnwrapFair == SpecUnwrap /\ WF_vars(UnwrapStep)

\* ------------------------------------------------------------------------
\* SpecImage: loadImage calls of direct callers, overlapping, and
\* clearImageCache, over the module-level image cache
\* ------------------------------------------------------------------------
MaxImageLoads == 2

FilePath == [scheme |-> "file", rest |-> "/tmp/logo.png"]
UpperUrl == [scheme |-> "HTTP", rest |-> "a.png"]
DataPng ==
    DataUri("image", <<"p", "n", "g">>, TRUE, [kind |-> "base64", bytes |-> PngBody])
DataText ==
    DataUri("text", <<"p", "l", "a", "i", "n">>, FALSE,
            [kind |-> "base64", bytes |-> GarbageBody])
DeferredLocal == [deferred |-> LocalPath]

\* data URIs: other declared formats, and the ways of being malformed (a
\* payload that is not base64, a subtype the pattern's \w+ does not match, no
\* payload, no ;base64 marker)
Base64Of(bytes) == [kind |-> "base64", bytes |-> bytes]
DataUris ==
    {DataPng, DataText,
     DataUri("image", <<"P", "N", "G">>, TRUE, Base64Of(PngBody)),
     DataUri("image", <<"j", "p", "g">>, TRUE, Base64Of(GarbageBody)),
     DataUri("image", <<"b", "m", "p">>, TRUE, Base64Of(GarbageBody)),
     DataUri("image", <<"s", "v", "g", "+", "x", "m", "l">>, TRUE, Base64Of(GarbageBody)),
     DataUri("image", <<"p", "n", "g">>, TRUE, [kind |-> "notbase64"]),
     DataUri("image", <<"p", "n", "g">>, TRUE, [kind |-> "empty"]),
     DataUri("image", <<"p", "n", "g">>, FALSE, Base64Of(PngBody))}

\* the signatures detectImageFormat looks for, and the markup of an SVG
SigPng == <<137, 80, 78, 71>>
SigJpeg == <<255, 216, 255>>
SigGif == <<71, 73, 70, 56>>
SigRiff == <<82, 73, 70, 70>>
SigWebp == <<87, 69, 66, 80>>
MarkSvg == <<60, 115, 118, 103>>
MarkXml == <<60, 63, 120, 109, 108>>

Zeros(n) == [i \in 1..n |-> 0]

\* byte arrays: each signature whole, cut short, with one byte off, followed
\* by other bytes or by SVG markup; RIFF containers that are and are not
\* WebP; SVG markup at the start, inside and past the first 100 bytes
DetectInputs ==
    LET heads == {SigPng, SigJpeg, SigGif, SigRiff, <<>>, <<0, 1, 2, 3>>,
                  <<137, 80, 78>>, <<255, 216>>, <<71, 73, 70>>,
                  <<137, 80, 78, 70>>, <<255, 216, 0>>, <<71, 73, 70, 57>>}
        tails == {<<>>, <<13, 10, 26, 10>>, MarkSvg, MarkXml}
    IN  {h \o t : h \in heads, t \in tails}
        \cup {SigRiff \o <<36, 0, 0, 0>> \o SigWebp,
              SigRiff \o <<36, 0, 0, 0>> \o SigWebp \o <<86, 80, 56>>,
              SigRiff \o <<36, 0, 0, 0>> \o <<87, 65, 86, 69>>,
              SigRiff \o <<36, 0, 0, 0>> \o <<87, 69, 66>>,
              SigRiff \o <<36, 0, 0, 0>> \o <<87, 65, 86, 69>> \o MarkSvg,
              Zeros(96) \o MarkSvg, Zeros(97) \o MarkSvg, Zeros(100) \o MarkSvg,
              Zeros(95) \o MarkXml, Zeros(96) \o MarkXml}

ImageSources ==
    {UrlA, UrlB, LocalPath, FilePath, UpperUrl, DataPng, DataText, DeferredA,
     DeferredLocal, [bytes |-> PngBody], [bytes |-> GarbageBody]}
    \cup {[bytes |-> b] : b \in DetectInputs}
    \cup DataUris

\* a loadImage call of a direct caller has settled
ObserveImage(src, result, fetched, hit) ==
    lastImage' = [src |-> src, result |-> result, fetched |-> fetched, hit |-> hit]

\* loadImage(src) is called and runs up to its first await
CallLoadImage ==
    /\ Len(imageLoads) < MaxImageLoads
    /\ \E src \in ImageSources :
          LET b == loadImageBegin(src, imageCache)
          IN  IF b.kind = "done"
              THEN /\ ObserveImage(src, b.result, 0, b.hit)
                   /\ UNCHANGED imageLoads
              ELSE /\ imageLoads' = Append(imageLoads, [src |-> src, wait |-> b,
                                                        cleared |-> FALSE])
                   /\ UNCHANGED lastImage
    /\ UNCHANGED <<convVars, fontVars, renderVars>>

\* the function source of a call settles; loadImage calls itself on what it
\* resolved to
ImageAwaitStep ==
    /\ \E i \in 1..Len(imageLoads), outcome \in {"resolve", "reject"} :
          /\ imageLoads[i].wait.kind = "await"
          /\ LET l == imageLoads[i]
                 b == loadImageBegin(l.src.deferred, imageCache)
             IN  IF outcome = "reject"
                 THEN /\ ObserveImage(l.src, Failed(PlainError("Error")), 0, FALSE)
                      /\ imageLoads' = RemoveAt(imageLoads, i)
                 ELSE IF b.kind = "done"
                 THEN /\ ObserveImage(l.src, b.result, 0, b.hit)
                      /\ imageLoads' = RemoveAt(imageLoads, i)
                 ELSE /\ imageLoads' = [imageLoads EXCEPT ![i].wait = b]
                      /\ UNCHANGED lastImage
    /\ UNCHANGED <<convVars, fontVars, renderVars>>

\* the request of loadFromUrl settles
ImageFetchStep ==
    /\ \E i \in 1..Len(imageLoads), outcome \in {"png", "garbage", "notok", "reject"} :
          /\ imageLoads[i].wait.kind = "fetch"
          /\ LET l == imageLoads[i]
                 result == loadFromUrlAfterFetch(l.wait.url, outcome)
             IN  /\ imageCache' = IF result.ok
                                  THEN (l.wait.url :> result.image) @@ imageCache
                                  ELSE imageCache
                 /\ ObserveImage(l.src, result, 1, FALSE)
                 /\ imageLoads' = RemoveAt(imageLoads, i)
    /\ UNCHANGED <<convVars, fontVars, options, run>>

\* clearImageCache(); the calls in flight are marked as having started
\* before a clear
clearImageCache ==
    /\ imageCache' = EmptyObj
    /\ imageLoads' = [i \in 1..Len(imageLoads) |-> [imageLoads[i] EXCEPT !.cleared = TRUE]]
    /\ UNCHANGED <<convVars, fontVars, options, run, lastImage>>

InitImage ==
    /\ element = NoneV
    /\ irDoc = NotRun
    /\ FontIdle
    /\ RenderIdle

NextImage ==
    \/ CallLoadImage
    \/ ImageAwaitStep
    \/ ImageFetchStep
    \/ clearImageCache

SpecImage == InitImage /\ [][NextImage]_vars

\* ------------------------------------------------------------------------
\* Elements and the IR nodes converted from them
\* ------------------------------------------------------------------------
RECURSIVE Surviving(_), SurvivingIn(_)
\* the children of a child value that produce an IR node, in order
Surviving(children) ==
    IF IsNullish(children) \/ "b" \in DOMAIN children THEN <<>>
    ELSE IF "items" \in DOMAIN children THEN SurvivingIn(children.items)
    ELSE <<children>>

SurvivingIn(items) ==
    IF items = <<>> THEN <<>> ELSE Surviving(Head(items)) \o SurvivingIn(Tail(items))

RECURSIVE ElemNodePairs(_, _), KidPairs(_, _)
\* Every [props, node] of an element (its props after unwrapping) and the IR
\* node standing at its place, over the subtree; [mismatch |-> TRUE] is in
\* the set when the IR has no node, or too many nodes, for the children.
ElemNodePairs(el, node) ==
    LET props == unwrapElement(el).props
    IN  {[props |-> props, node |-> node]}
        \cup KidPairs(Surviving(Get(props, "children")), node.children)

KidPairs(kids, nodes) ==
    IF Len(kids) # Len(nodes) THEN {[mismatch |-> TRUE]}
    ELSE UNION {IF isReactElement(kids[i]) THEN ElemNodePairs(kids[i], nodes[i]) ELSE {} :
                  i \in 1..Len(kids)}

IsPageElement(el) ==
    isReactElement(el) /\ getElementType(unwrapElement(el).type) = "page"

\* the pairs of a converted document: the nodes below its pages
DocPairs(el, doc) ==
    LET root == unwrapElement(el)
        rootType == getElementType(root.type)
        kids == Surviving(Get(root.props, "children"))
        pageEls == SelectSeq(kids, IsPageElement)
    IN  IF rootType = "document"
        THEN IF Len(pageEls) # Len(doc.pages) THEN {[mismatch |-> TRUE]}
             ELSE UNION {KidPairs(Surviving(Get(unwrapElement(pageEls[i]).props, "children")),
                                  doc.pages[i].children) : i \in 1..Len(pageEls)}
        ELSE IF rootType = "page" THEN KidPairs(kids, doc.pages[1].children)
        ELSE ElemNodePairs(el, doc.pages[1].children[1])

ClassStyleOf(props) ==
    IF Has(props, "className") THEN parseTailwindClasses(props["className"]) ELSE EmptyObj
InlineStyleOf(props) == IF Has(props, "style") THEN props["style"] ELSE EmptyObj

\* C1. Style precedence: in every converted node, a property that the node's
\* explicit style map gives a defined value has that value in the IR style,
\* whatever the class tokens set for it; a property that only the class
\* tokens set keeps the class-derived value.
StylePrecedence ==
    Converted =>
        \A pair \in DocPairs(element, irDoc.doc) :
            /\ "mismatch" \notin DOMAIN pair
            /\ \A P \in DOMAIN InlineStyleOf(pair.props) :
                  ~IsNullish(InlineStyleOf(pair.props)[P]) =>
                      /\ P \in DOMAIN pair.node.style
                      /\ pair.node.style[P] = InlineStyleOf(pair.props)[P]
            /\ \A P \in (DOMAIN ClassStyleOf(pair.props)) \ DOMAIN InlineStyleOf(pair.props) :
                  /\ P \in DOMAIN pair.node.style
                  /\ pair.node.style[P] = ClassStyleOf(pair.props)[P]

\* a converted node whose class tokens and explicit style set the same
\* property to different values, next to a property only the tokens set
StylePrecedenceWitness ==
    /\ Converted
    /\ \E pair \in DocPairs(element, irDoc.doc) :
          /\ "mismatch" \notin DOMAIN pair
          /\ \E P \in DOMAIN InlineStyleOf(pair.props) \cap DOMAIN ClassStyleOf(pair.props) :
                /\ ~IsNullish(InlineStyleOf(pair.props)[P])
                /\ InlineStyleOf(pair.props)[P] # ClassStyleOf(pair.props)[P]
                /\ pair.node.style[P] = InlineStyleOf(pair.props)[P]
          /\ \E Q \in (DOMAIN ClassStyleOf(pair.props)) \ DOMAIN InlineStyleOf(pair.props) :
                pair.node.style[Q] = ClassStyleOf(pair.props)[Q]

\* ------------------------------------------------------------------------
\* Claims about the font service (SpecFont)
\* ------------------------------------------------------------------------
SameFontBytes(pair) == pair.second.data = pair.first.data

\* C2 as stated. Idempotent font caching: of two successive fulfilled
\* loadFont calls for one (family, weight, style) with no cache clear
\* between them, both return the same bytes, the second issues no fetch, and
\* the pair issues exactly one underlying fetch in total.
IdempotentCachingExactlyOneFetch ==
    pairLog # NoneV =>
        /\ SameFontBytes(pairLog)
        /\ pairLog.second.fetched = 0
        /\ pairLog.first.fetched + pairLog.second.fetched = 1

\* the fetches a fulfilled call has issued, by where its bytes come from:
\* a cache hit or a registered buffer none, a registered URL one, the
\* catalog two (stylesheet, then font file)
FetchesFor(data) ==
    IF "google" \in DOMAIN data THEN {0, 2}
    ELSE IF "fetched" \in DOMAIN data THEN {0, 1}
    ELSE {0}

\* C2. Idempotent font caching, amended: of two successive fulfilled loadFont
\* calls for one (family, weight, style) with no cache clear between them,
\* both return the same bytes and the second issues no fetch and is answered
\* without waiting; the fetches of the pair are those of the first call,
\* which are none when it was itself answered from the cache or from a
\* registered buffer, one for a registered URL, and two for a catalog font.
IdempotentCaching ==
    /\ \A i \in 1..Len(fontLoads) : fontLoads[i].prev = NoneV
    /\ pairLog # NoneV =>
          /\ SameFontBytes(pairLog)
          /\ pairLog.second.fetched = 0
          /\ pairLog.first.fetched \in FetchesFor(pairLog.first.data)

\* a pair whose first call fetched from the catalog and whose second call
\* was answered with the same bytes and no fetch
IdempotentCachingWitness ==
    /\ pairLog # NoneV
    /\ pairLog.first.fetched = 2
    /\ pairLog.second.fetched = 0
    /\ SameFontBytes(pairLog)

NetworkCauses == {"notok", "reject"}

\* C9. Any network failure during loadFont (a non-success status or a
\* rejected request, for the stylesheet, the font file or a registered font
\* URL) reaches the caller as a PaperFlowError whose context carries family,
\* weight, style and url.
FontNetworkFailureContext ==
    (lastCall # NoneV /\ lastCall.stage = "err" /\ lastCall.cause \in NetworkCauses) =>
        /\ lastCall.error.pf
        /\ {"family", "weight", "style", "url"} \subseteq DOMAIN lastCall.error.context

\* ------------------------------------------------------------------------
\* Claims about render (SpecRender)
\* ------------------------------------------------------------------------
PastFonts == run.pc \in {"images", "engine", "done"}
PastImages == run.pc \in {"engine", "done"}

OkLoads == SelectSeq(fontLoads, LAMBDA l : l.stage = "ok")

\* C3. Bulk font resolution: loadFontsForDocument returns or throws only once
\* every requested load has settled; when at least one load succeeded it
\* returns exactly the successful loads, in request order, and does not
\* throw; when every load failed it throws the failure of the first
\* requested load.
BulkFontResolution ==
    [][(run.pc = "fonts" /\ run'.pc # "fonts") =>
          /\ \A i \in 1..Len(fontLoads) : Settled(fontLoads[i])
          /\ OkLoads # <<>> =>
                /\ run'.pc = "images"
                /\ run'.fonts = [i \in 1..Len(OkLoads) |-> LoadedFont(OkLoads[i])]
          /\ (OkLoads = <<>> /\ fontLoads # <<>>) =>
                /\ run'.pc = "rejected"
                /\ run'.caught = fontLoads[1].error]_vars

\* a partial success: some of the requested loads failed, the others were
\* returned
BulkFontResolutionWitness ==
    /\ run.pc = "images"
    /\ run.fonts # <<>>
    /\ Len(run.fonts) < Len(run.requested)

RECURSIVE DeclaresFamily(_)
\* some node of this list, or below it, has a font family in its style
DeclaresFamily(nodes) ==
    \E i \in 1..Len(nodes) :
        \/ "fontFamily" \in DOMAIN nodes[i].style
        \/ DeclaresFamily(nodes[i].children)

NoFamilyDeclared(ir) == \A i \in 1..Len(ir.pages) : ~DeclaresFamily(ir.pages[i].children)

IsDefaultFont(f) ==
    f.family = <<"i", "n", "t", "e", "r">> /\ f.weight = 400 /\ f.style = "normal"

\* C4. Default font guarantee: for a document in which no node's style
\* declares a font family, the one font requested and resolved is the default
\* (Inter, 400, normal); and the font list loadFontsForDocument returns, which
\* is the one the engine gets, is never empty.
DefaultFontGuarantee ==
    /\ PastFonts => run.fonts # <<>>
    /\ (run.pc \in {"fonts", "images", "engine", "done"} /\ NoFamilyDeclared(irDoc.doc)) =>
          /\ Len(run.requested) = 1
          /\ IsDefaultFont(run.requested[1])
    /\ (PastFonts /\ NoFamilyDeclared(irDoc.doc)) =>
          /\ Len(run.fonts) = 1
          /\ IsDefaultFont(run.fonts[1])

\* the engine is about to get the default font for a document without fonts
DefaultFontGuaranteeWitness ==
    /\ run.pc = "engine"
    /\ NoFamilyDeclared(irDoc.doc)
    /\ Len(run.fonts) = 1
    /\ IsDefaultFont(run.fonts[1])

RECURSIVE ImageSrcs(_), ImageSrcsIn(_)
\* the src of the image elements of a child value, in document order
ImageSrcs(children) ==
    IF IsNullish(children) THEN <<>>
    ELSE IF "items" \in DOMAIN children THEN ImageSrcsIn(children.items)
    ELSE IF isReactElement(children)
    THEN LET unwrapped == unwrapElement(children)
         IN  IF IsThrow(unwrapped) THEN <<>>
             ELSE (IF getElementType(unwrapped.type) = "image" /\ Has(unwrapped.props, "src")
                   THEN <<unwrapped.props["src"]>> ELSE <<>>)
                  \o ImageSrcs(Get(unwrapped.props, "children"))
    ELSE <<>>

ImageSrcsIn(items) ==
    IF items = <<>> THEN <<>> ELSE ImageSrcs(Head(items)) \o ImageSrcsIn(Tail(items))

Count(seq, Test(_)) == Cardinality({i \in 1..Len(seq) : Test(seq[i])})

\* the URL strings that two or more image nodes of the element have as src
RepeatedUrls ==
    LET srcs == ImageSrcs(element)
    IN  {srcs[i] : i \in {j \in 1..Len(srcs) :
                            /\ IsHttpUrl(srcs[j])
                            /\ Count(srcs, LAMBDA x : x = srcs[j]) >= 2}}

\* the URL a load of this source asks for
FetchUrlOf(src) == IF "deferred" \in DOMAIN src THEN src.deferred ELSE src

RECURSIVE SumFetches(_, _)
\* the requests for this URL among the loads of the render
SumFetches(loads, url) ==
    IF loads = <<>> THEN 0
    ELSE (IF FetchUrlOf(Head(loads).src) = url THEN Head(loads).fetches ELSE 0)
         + SumFetches(Tail(loads), url)

OneUsageEntry(url) == Count(irDoc.doc.images, LAMBDA u : u.src = url) = 1

\* C5 as stated. Image dedup by URL: a URL that two or more image nodes have
\* as src has exactly one image-usage entry, and a render that has loaded its
\* images has performed exactly one fetch for it.
ImageDedupExactlyOneFetch ==
    (Converted /\ run.pc \in {"fonts", "images", "engine", "done"}) =>
        \A url \in RepeatedUrls :
            /\ OneUsageEntry(url)
            /\ PastImages => SumFetches(run.loads, url) = 1

\* C5. Image dedup by URL, amended: a URL that two or more image nodes have
\* as src has exactly one image-usage entry; a render that has loaded its
\* images has called loadImage exactly once for that entry, and that call has
\* fetched the URL once when the image cache did not hold it and not at all
\* when it did.
ImageDedup ==
    (Converted /\ run.pc \in {"fonts", "images", "engine", "done"}) =>
        \A url \in RepeatedUrls :
            /\ OneUsageEntry(url)
            /\ PastImages =>
                  /\ Count(run.loads, LAMBDA l : l.src = url) = 1
                  /\ \A i \in 1..Len(run.loads) :
                        run.loads[i].src = url =>
                            run.loads[i].fetches = IF run.loads[i].hit THEN 0 ELSE 1

\* a render of a document with a repeated URL has fetched it once
ImageDedupWitness ==
    /\ Converted
    /\ PastImages
    /\ \E url \in RepeatedUrls :
          /\ OneUsageEntry(url)
          /\ \E i \in 1..Len(run.loads) :
                run.loads[i].src = url /\ run.loads[i].fetches = 1

\* the loads of the render are those of the usage entries, in order, and the
\* resolved-image map has the id of a usage exactly when its load succeeded
ImageMapRight(r, ir) ==
    /\ Len(r.loads) = Len(ir.images)
    /\ \A i \in 1..Len(r.loads) :
          /\ r.loads[i].id = ir.images[i].id
          /\ MapHas(r.images, r.loads[i].id) <=> r.loads[i].ok
    /\ \A i \in 1..Len(r.images) : \E j \in 1..Len(r.loads) : r.images[i].key = r.loads[j].id

StructuralErrorsBeforeAssets ==
    (run.pc = "rejected" /\ run.result.code \in {"NO_PAGES", "UNKNOWN_ENGINE"}) =>
        /\ run.requested = <<>>
        /\ run.loads = <<>>

\* C8. Error normalization at the render boundary: every rejection of render
\* is a PaperFlowError; a PaperFlowError thrown inside is rejected with
\* unchanged, and any other thrown value is wrapped with code RENDER_FAILED.
ErrorNormalization ==
    run.pc = "rejected" =>
        /\ run.result.pf
        /\ run.caught.pf => run.result = run.caught
        /\ ~run.caught.pf => run.result.code = "RENDER_FAILED"

\* render has rejected with the wrapping of a value that is no PaperFlowError
ErrorNormalizationWitness ==
    /\ run.pc = "rejected"
    /\ ~run.caught.pf
    /\ run.result.pf
    /\ run.result.code = "RENDER_FAILED"

\* ------------------------------------------------------------------------
\* Claims about unwrapElement (SpecUnwrapFair)
\* ------------------------------------------------------------------------
\* C10. Composite unwrapping always terminates: every call of unwrapElement
\* comes to return (it has reached a primitive or a component that renders
\* no element) or to throw (a component threw, or the expansion ran away and
\* was stopped with an error).
UnwrapTerminates ==
    (unwrapping.pc = "loop") ~> (unwrapping.pc \in {"returned", "threw"})

\* ------------------------------------------------------------------------
\* Claims about the converted document and the render result
\* ------------------------------------------------------------------------
\* the IR node the walk makes of the element handed in
RootNode == convertElement(element, [fonts |-> <<>>, images |-> <<>>]).node

PageKindKids(root) == SelectSeq(root.children, LAMBDA c : c.type = "page")

A4Points == [width |-> 59528, height |-> 84189]

\* C11. Page extraction: for a document root the IR pages are its direct
\* page-kind children, in order, and no other child gives a page; for a page
\* root the one page is that page; for any other root the one page is a
\* synthesized A4 page with margin 40 on every edge whose only child is the
\* converted root.  The page count of the RenderResult is the length of the
\* page list.
PageExtraction ==
    Converted =>
        LET root == RootNode
            pages == irDoc.doc.pages
        IN  /\ root.type = "document" =>
                  /\ Len(pages) = Len(PageKindKids(root))
                  /\ \A i \in 1..Len(pages) :
                        pages[i].children = PageKindKids(root)[i].children
            /\ root.type = "page" =>
                  /\ Len(pages) = 1
                  /\ pages[1].children = root.children
            /\ root.type \notin {"document", "page"} =>
                  pages = <<[size |-> A4Points,
                             margin |-> [top |-> 40, right |-> 40, bottom |-> 40,
                                         left |-> 40],
                             children |-> <<root>>]>>
            /\ run.pc = "done" => run.result.pages = Len(pages)

\* a render has returned for a document that has a page and other content
\* next to it
PageExtractionWitness ==
    /\ Converted
    /\ run.pc = "done"
    /\ RootNode.type = "document"
    /\ Len(RootNode.children) > Len(irDoc.doc.pages)
    /\ run.result.pages = 1

\* the two ways of writing document > page > text("Hello"): the Text
\* component around the string, and the string itself as the page's child
IsHelloTextTree ==
    /\ element.type = FnT("Document")
    /\ Get(element.props, "children") = PageOf(<<StyledText(Absent, Absent)>>)

IsHelloStringTree ==
    /\ element.type = FnT("Document")
    /\ Get(element.props, "children") = PageOf(<<StrV("Hello")>>)

OnePageOneTextChild ==
    /\ Len(irDoc.doc.pages) = 1
    /\ Len(irDoc.doc.pages[1].children) = 1
    /\ irDoc.doc.pages[1].children[1].type = "text"

\* C12 as stated. End-to-end conversion: document > page > text("Hello")
\* converts to an IRDocument with exactly one page, and that page has exactly
\* one child, of kind text, whose content is "Hello".
EndToEndContentOnPageChild ==
    (Converted /\ (IsHelloTextTree \/ IsHelloStringTree)) =>
        /\ OnePageOneTextChild
        /\ Get(irDoc.doc.pages[1].children[1].props, "content") = StrV("Hello")

\* C12, amended. End-to-end conversion: document > page > text("Hello")
\* converts to an IRDocument with exactly one page, and that page has exactly
\* one child, of kind text.  When "Hello" is the page's own string child,
\* that child is a leaf whose content is "Hello"; when it is wrapped in a Text
\* element, the page's child has no content of its own and exactly one child,
\* a text leaf without style or children whose content is "Hello".
EndToEnd ==
    /\ (Converted /\ IsHelloStringTree) =>
          /\ OnePageOneTextChild
          /\ irDoc.doc.pages[1].children[1].children = <<>>
          /\ Get(irDoc.doc.pages[1].children[1].props, "content") = StrV("Hello")
    /\ (Converted /\ IsHelloTextTree) =>
          /\ OnePageOneTextChild
          /\ ~Has(irDoc.doc.pages[1].children[1].props, "content")
          /\ irDoc.doc.pages[1].children[1].children =
                <<[type |-> "text", props |-> [content |-> StrV("Hello")],
                   style |-> EmptyObj, children |-> <<>>]>>

\* the Text element around "Hello" has been converted
EndToEndWitness ==
    /\ Converted
    /\ IsHelloTextTree
    /\ Len(irDoc.doc.pages[1].children[1].children) = 1

\* ------------------------------------------------------------------------
\* Claims about the image loader
\* ------------------------------------------------------------------------
\* a string that starts with none of http://, https:// and data:
IsPlainPath(src) == IsStringSrc(src) /\ src.scheme \notin {"http", "https", "data"}

\* C13. Local path rejection: loadImage on any string source that does not
\* start with http://, https:// or data: raises a PaperFlowError with code
\* LOCAL_FILE_NOT_SUPPORTED, performs no fetch and leaves the image cache
\* unchanged.
LocalPathRejection ==
    [][(lastImage' # lastImage /\ IsPlainPath(lastImage'.src)) =>
          /\ ~lastImage'.result.ok
          /\ lastImage'.result.error.pf
          /\ lastImage'.result.error.code = "LOCAL_FILE_NOT_SUPPORTED"
          /\ lastImage'.fetched = 0
          /\ imageCache' = imageCache]_vars

\* a call on a path has settled while the cache held an image and another
\* call was waiting for its response
LocalPathRejectionWitness ==
    /\ lastImage # NoneV
    /\ lastImage.src = FilePath
    /\ ~lastImage.result.ok
    /\ UrlA \in DOMAIN imageCache
    /\ imageLoads # <<>>

HasPrefix(arr, sig) == Len(arr) >= Len(sig) /\ SubSeq(arr, 1, Len(sig)) = sig

IsRiffWebp(arr) == HasPrefix(arr, SigRiff) /\ Len(arr) >= 12 /\ SubSeq(arr, 9, 12) = SigWebp

\* the first 100 bytes hold "<?xml" or "<svg"
HasLeadingSvgMarkup(arr) ==
    \E mark \in {MarkSvg, MarkXml} :
        \E i \in 1..100 : i + Len(mark) - 1 <= Len(arr) /\ i + Len(mark) - 1 <= 100
                          /\ SubSeq(arr, i, i + Len(mark) - 1) = mark

FormatOf(result) == IF result.ok THEN result.image.format ELSE "none"

\* C14. Format detection: byte data starting with the PNG, JPEG or GIF
\* signature, or with RIFF at bytes 0-3 and WEBP at bytes 8-11, is classified
\* png, jpeg, gif, webp respectively; data matching none of these and
\* containing no leading SVG markup raises UNKNOWN_IMAGE_FORMAT.
FormatDetection ==
    (lastImage # NoneV /\ "bytes" \in DOMAIN lastImage.src) =>
        LET arr == lastImage.src.bytes
            result == lastImage.result
        IN  /\ HasPrefix(arr, SigPng) => FormatOf(result) = "png"
            /\ HasPrefix(arr, SigJpeg) => FormatOf(result) = "jpeg"
            /\ HasPrefix(arr, SigGif) => FormatOf(result) = "gif"
            /\ IsRiffWebp(arr) => FormatOf(result) = "webp"
            /\ (/\ ~HasPrefix(arr, SigPng) /\ ~HasPrefix(arr, SigJpeg)
                /\ ~HasPrefix(arr, SigGif) /\ ~IsRiffWebp(arr)
                /\ ~HasLeadingSvgMarkup(arr)) =>
                  /\ ~result.ok
                  /\ result.error.pf
                  /\ result.error.code = "UNKNOWN_IMAGE_FORMAT"

\* a RIFF container that is no WebP has been refused
FormatDetectionWitness ==
    /\ lastImage # NoneV
    /\ "bytes" \in DOMAIN lastImage.src
    /\ HasPrefix(lastImage.src.bytes, SigRiff)
    /\ ~IsRiffWebp(lastImage.src.bytes)
    /\ ~lastImage.result.ok

\* ------------------------------------------------------------------------
\* Claims about pages
\* ------------------------------------------------------------------------
\* the margin property of the page of a margin tree
MarginGiven == Get(Get(element.props, "children").props, "margin")

SpecifiedEdge(margin, edge) ==
    IF "edges" \in DOMAIN margin /\ edge \in DOMAIN margin.edges
    THEN margin.edges[edge] ELSE 0

\* C15. Margin normalization: normalizeMargin always returns a margin with
\* all four edges populated: a number n gives n on every edge; a string
\* "v h" gives top=bottom=v and right=left=h; a string "t r b l" gives those
\* four edges in that order; undefined or a partial per-edge object gives the
\* specified edges and zero for every unspecified edge.
MarginNormalization ==
    (Converted /\ element \in MarginTrees) =>
        LET given == MarginGiven
            margin == irDoc.doc.pages[1].margin
        IN  /\ DOMAIN margin = Edges
            /\ \A e \in Edges : margin[e] \in Nat
            /\ "n" \in DOMAIN given => \A e \in Edges : margin[e] = given.n
            /\ ("parts" \in DOMAIN given /\ Len(given.parts) = 2) =>
                  margin = [top |-> given.parts[1], right |-> given.parts[2],
                            bottom |-> given.parts[1], left |-> given.parts[2]]
            /\ ("parts" \in DOMAIN given /\ Len(given.parts) = 4) =>
                  margin = [top |-> given.parts[1], right |-> given.parts[2],
                            bottom |-> given.parts[3], left |-> given.parts[4]]
            /\ (given = Undefined \/ "edges" \in DOMAIN given) =>
                  \A e \in Edges : margin[e] = SpecifiedEdge(given, e)

\* a page given only its top and left margins has been converted
MarginNormalizationWitness ==
    /\ Converted
    /\ element \in MarginTrees
    /\ MarginGiven = [edges |-> [top |-> 5, left |-> 7]]
    /\ irDoc.doc.pages[1].margin.right = 0

\* ------------------------------------------------------------------------
\* Claims about PaperFlow.pdfs.create
\* ------------------------------------------------------------------------
RenderSettled == run.pc \in {"done", "rejected"}

\* C16. PaperFlow.pdfs.create never rejects: for every element and options
\* it resolves to {data, error} in which exactly one of data and error is
\* non-null, and a non-null error is a PaperFlowError (an existing
\* PaperFlowError is passed through, any other failure becomes RENDER_FAILED).
PdfsCreateNeverRejects ==
    RenderSettled =>
        LET response == createPdf(run)
        IN  /\ response.settled = "fulfilled"
            /\ DOMAIN response = {"settled", "data", "error"}
            /\ (response.data = Null) # (response.error = Null)
            /\ response.error # Null =>
                  /\ response.error.pf
                  /\ \/ response.error = run.result
                     \/ response.error.code = "RENDER_FAILED"
            /\ response.data # Null => response.data = run.result

\* the engine has thrown an Error of its own and the response carries the
\* error render made of it
PdfsCreateNeverRejectsWitness ==
    /\ run.pc = "rejected"
    /\ ~run.caught.pf
    /\ createPdf(run).data = Null
    /\ createPdf(run).error.pf

\* ------------------------------------------------------------------------
\* Claims about the style resolver
\* ------------------------------------------------------------------------
\* the property assignments of one token: what it sets in an empty style
OwnAssignments(token) == parseClass(token, EmptyObj)

\* the positions of the words of a class string that set property P
Setters(words, P) ==
    {i \in 1..Len(words) : words[i] # <<>> /\ P \in DOMAIN OwnAssignments(words[i])}

Latest(positions) == CHOOSE i \in positions : \A j \in positions : j <= i

\* the right-biased fold: a property is set when some token sets it, to the
\* value the last such token gives it
RightBiasedFold(words) ==
    LET props == UNION {DOMAIN OwnAssignments(words[i]) :
                          i \in {j \in 1..Len(words) : words[j] # <<>>}}
    IN  [P \in props |-> OwnAssignments(words[Latest(Setters(words, P))])[P]]

\* the converted nodes whose element has a class string and no style map
ClassOnlyPairs ==
    {pair \in DocPairs(element, irDoc.doc) :
        /\ "mismatch" \notin DOMAIN pair
        /\ Has(pair.props, "className")
        /\ ~Has(pair.props, "style")}

\* C17. The style resolver is a right-biased fold over tokens:
\* parseTailwindClasses(s) equals the result of applying each
\* whitespace-separated token's property assignments in string order, so for
\* two tokens setting the same property the later one wins, tokens setting
\* different properties do not affect each other, and unrecognized tokens and
\* extra whitespace contribute nothing.
StyleResolverFold ==
    Converted =>
        \A pair \in ClassOnlyPairs :
            LET words == pair.props["className"].words
            IN  /\ parseTailwindClasses(pair.props["className"]) = RightBiasedFold(words)
                /\ pair.node.style = RightBiasedFold(words)
                /\ \A i \in 1..Len(words) :
                      (words[i] = <<>> \/ OwnAssignments(words[i]) = EmptyObj) =>
                          RightBiasedFold(words) =
                              RightBiasedFold(SubSeq(words, 1, i - 1)
                                              \o SubSeq(words, i + 1, Len(words)))

\* a converted node with two tokens that set the color differently: it has
\* the color of the second
StyleResolverFoldWitness ==
    /\ Converted
    /\ \E pair \in ClassOnlyPairs :
          /\ pair.props["className"].words = << <<"text", "black">>, <<"text", "white">> >>
          /\ pair.node.style = [color |-> StrV("#ffffff")]

\* ------------------------------------------------------------------------
\* Claims about document metadata
\* ------------------------------------------------------------------------
\* ir.metadata?.key
MetadataRead(metadata, key) ==
    IF metadata = NoMetadata THEN Undefined ELSE metadata[key]

MetadataKeys == {"title", "author", "subject"}

\* C18 as stated. Document metadata: when the converted root is a document,
\* the IRDocument metadata title, author and subject equal the root's title,
\* author and subject properties, and RenderResult.metadata.title and .author
\* equal the root's title and author.
DocumentMetadataVerbatim ==
    (Converted /\ RootNode.type = "document") =>
        /\ \A key \in MetadataKeys :
              MetadataRead(irDoc.doc.metadata, key) = Get(RootNode.props, key)
        /\ run.pc = "done" =>
              /\ run.result.metadata.title = Get(RootNode.props, "title")
              /\ run.result.metadata.author = Get(RootNode.props, "author")

\* C18, amended. Document metadata: when the converted root is a document
\* and at least one of its title, author and subject properties is truthy,
\* the IRDocument metadata title, author and subject equal the root's title,
\* author and subject properties, and RenderResult.metadata.title and .author
\* equal the root's title and author.  When none of the three is truthy (all
\* absent or empty), or the root is no document, the IRDocument has no
\* metadata and RenderResult.metadata.title and .author are undefined.
DocumentMetadata ==
    Converted =>
        LET root == RootNode
            given == /\ root.type = "document"
                     /\ \E key \in MetadataKeys : Truthy(Get(root.props, key))
        IN  /\ given =>
                  /\ irDoc.doc.metadata # NoMetadata
                  /\ \A key \in MetadataKeys :
                        irDoc.doc.metadata[key] = Get(root.props, key)
                  /\ run.pc = "done" =>
                        /\ run.result.metadata.title = Get(root.props, "title")
                        /\ run.result.metadata.author = Get(root.props, "author")
            /\ ~given =>
                  /\ irDoc.doc.metadata = NoMetadata
                  /\ run.pc = "done" =>
                        /\ run.result.metadata.title = Undefined
                        /\ run.result.metadata.author = Undefined

\* a render has returned for a document with an empty title and an author
DocumentMetadataWitness ==
    /\ Converted
    /\ run.pc = "done"
    /\ RootNode.type = "document"
    /\ Get(RootNode.props, "title") = StrV("")
    /\ run.result.metadata = [title |-> StrV(""), author |-> StrV("Ann")]

\* ------------------------------------------------------------------------
\* Claims about the font tiers and the caches
\* ------------------------------------------------------------------------
\* the bytes a registry entry stands for
ConfigBytes(config) ==
    IF "buffer" \in DOMAIN config.src THEN config.src ELSE UrlBytes(config.src.url)

\* what a loadFont call made in the current state does, tier by tier
TiersInOrder ==
    \A family \in FontFamilies, weight \in FontWeights, style \in FontStyles :
        LET nf == normalizeFamily(family)
            key == CacheKey(nf, weight, style)
            l == loadFontBegin(family, weight, style, fontCache, customFonts,
                               "client", NoneV)
        IN  /\ key \in DOMAIN fontCache =>
                  /\ l.stage = "ok"
                  /\ l.data = fontCache[key]
                  /\ l.fetched = 0
                  /\ l.config = Undefined
            /\ (key \notin DOMAIN fontCache /\ nf \in DOMAIN customFonts) =>
                  /\ l.stage = "custom"
                  /\ \E i \in 1..Len(customFonts[nf]) : l.config = customFonts[nf][i]
                  /\ \A outcome \in {"ok", "notok", "reject"} :
                        LET r == loadFontAfterCustom(l, outcome)
                        IN  /\ Settled(r)
                            /\ r.fetched = l.fetched
                            /\ r.stage = "ok" => r.data = ConfigBytes(l.config)
            /\ (key \notin DOMAIN fontCache /\ nf \notin DOMAIN customFonts) =>
                  /\ l.stage = "css"
                  /\ l.config = Undefined
                  /\ l.fetched = 1

\* the calls in flight: one that took a registry entry is not at the
\* catalog, one at the catalog took no registry entry
InFlightTiers ==
    \A i \in 1..Len(fontLoads) :
        /\ fontLoads[i].stage = "custom" <=> fontLoads[i].config # Undefined
        /\ fontLoads[i].stage \in {"custom", "css", "file"}

\* C19. Font resolution tiers are consulted strictly in the order cache,
\* custom registry, remote catalog: loadFont on a cache hit returns the cached
\* bytes without consulting the registry or the network; on a miss with at
\* least one registry entry for the normalized family it returns registry data
\* and never contacts the remote catalog; only with a cache miss and no
\* registry entry is the catalog fetched; every successful result is stored in
\* the cache before it is returned.
FontTierOrder ==
    /\ TiersInOrder
    /\ InFlightTiers
    /\ \A key \in DOMAIN lastOk :
          /\ key \in DOMAIN fontCache
          /\ fontCache[key] = lastOk[key].data

\* a call has returned the catalog's bytes from the cache, without a fetch,
\* while the registry holds an entry for the family
FontTierOrderWitness ==
    \E key \in DOMAIN lastOk :
        /\ key \in DOMAIN fontCache
        /\ key[1] \in DOMAIN customFonts
        /\ lastOk[key] = [data |-> GoogleBytes(key), fetched |-> 0]

\* C20. Cache entries are write-once: under every interleaving of concurrent
\* loadFont calls, loadImage calls on URLs and renders, once a cache key
\* holds a value that value is never replaced by a different value, and every
\* later resolution of that key returns it, until clearFontCache /
\* clearImageCache is called; entries persist across render calls.  Here for
\* the font cache: a step that is no clear keeps every entry as it is, and a
\* call that settles for a key the cache holds returns the value held.
FontCacheWriteOnce ==
    [][fontCache' # EmptyObj =>
          /\ \A key \in DOMAIN fontCache :
                /\ key \in DOMAIN fontCache'
                /\ fontCache'[key] = fontCache[key]
          /\ \A key \in DOMAIN lastOk' \cap DOMAIN fontCache :
                (key \notin DOMAIN lastOk \/ lastOk'[key] # lastOk[key]) =>
                    lastOk'[key].data = fontCache[key]]_vars

\* ------------------------------------------------------------------------
\* C21  Document-wide fan-out
\* ------------------------------------------------------------------------
\* the image usage entries whose loadImage call render has not issued yet
ImagesNotIssued ==
    IF run.wait = NoWait THEN run.idx..Len(irDoc.doc.images)
    ELSE (run.idx + 1)..Len(irDoc.doc.images)

\* C21: within one render every required font request is issued without
\* waiting for another font request to settle (while loadFontsForDocument is
\* awaited, every requested combination has its loadFont call issued), and
\* every required image request is issued without waiting for another image
\* request to settle (while a loadImage call of the render is pending, no
\* image usage entry is left whose request has not been issued).
DocumentWideFanOut ==
    /\ run.pc = "fonts" =>
          /\ Len(fontLoads) = Len(FontRequests(detectFontsFromIR(irDoc.doc)))
          /\ \A i \in 1..Len(fontLoads) :
                \E j \in 1..Len(run.requested) :
                    /\ run.requested[j].family = fontLoads[i].family
                    /\ run.requested[j].weight = fontLoads[i].weight
                    /\ run.requested[j].style = fontLoads[i].style
    /\ (run.pc = "images" /\ run.wait # NoWait) => ImagesNotIssued = {}

\* ------------------------------------------------------------------------
\* C22  Every font the tree declares is requested
\* ------------------------------------------------------------------------
\* the family identity trackFonts records for a style's font family
PrimaryFamily(family) == StripQuotes(Trim(FirstField(family)))

RECURSIVE DeclaredFonts(_), DeclaredFontsIn(_)
\* the (normalized family, weight, style) of every node of the converted tree
\* whose effective style declares a font family that trackFonts records
DeclaredFonts(node) ==
    LET family == Get(node.style, "fontFamily")
        here == IF Truthy(family) /\ PrimaryFamily(family.cs) # <<>>
                THEN {[family |-> normalizeFamily(PrimaryFamily(family.cs)),
                       weight |-> normalizeWeight(Get(node.style, "fontWeight")),
                       style |-> IF Get(node.style, "fontStyle") = Undefined
                                 THEN "normal" ELSE node.style["fontStyle"].s]}
                ELSE {}
    IN  here \cup DeclaredFontsIn(node.children)

DeclaredFontsIn(nodes) ==
    IF nodes = <<>> THEN {}
    ELSE DeclaredFonts(Head(nodes)) \cup DeclaredFontsIn(Tail(nodes))

\* the (family, weight, style) of the loadFont calls loadFontsForDocument
\* makes for the converted document
IssuedFontLoads ==
    LET calls == loadFontsForDocumentBegin(irDoc.doc, fontCache, customFonts)
    IN  {[family |-> calls[i].family, weight |-> calls[i].weight,
          style |-> calls[i].style] : i \in 1..Len(calls)}

\* C22: for every node of the converted tree, page nodes included, whose
\* effective style declares a font family, bulk font resolution issues a load
\* for that node's normalized family (the family identity the converter
\* recorded in the usage manifest), weight and style.
DeclaredFontsRequested ==
    (Converted /\ irDoc.doc.pages # <<>>) =>
        DeclaredFonts(RootNode) \subseteq IssuedFontLoads

\* ------------------------------------------------------------------------
\* C23  The font-usage list is deduplicated by normalized family
\* ------------------------------------------------------------------------
\* the weights the tree declares for the families that normalize to this one
DeclaredWeights(normalizedFamily) ==
    {d.weight : d \in {x \in DeclaredFonts(RootNode) : x.family = normalizedFamily}}

\* C23: no two entries of the IRDocument font-usage list share a normalized
\* family, and the weights of the entry of a declared family are the union of
\* the weights of the declarations whose family normalizes to it (families
\* that differ only in letter case, quoting or whitespace give one entry).
FontUsageDeduplicated ==
    Converted =>
        LET fonts == irDoc.doc.fonts
        IN  /\ \A i, j \in 1..Len(fonts) :
                  normalizeFamily(fonts[i].family) = normalizeFamily(fonts[j].family)
                      => i = j
            /\ DeclaredFonts(RootNode) # {} =>
                  \A i \in 1..Len(fonts) :
                      fonts[i].weights =
                          SortedSeq(DeclaredWeights(normalizeFamily(fonts[i].family)))

\* ------------------------------------------------------------------------
\* C24  Image identity is derived from the source
\* ------------------------------------------------------------------------
\* the id trackImage gives a source that is the only image of its document
IdOfSourceAlone(src) ==
    trackImage(src, [fonts |-> <<>>, images |-> <<>>]).images[1].id

\* C24: image nodes with identical sources of any variant collapse to one
\* image-usage entry (no two entries have the same original source), and an
\* entry's id is a function of its source, not of its position in the
\* document (it is the id the same source has in a document of its own).
ImageIdentityFromSource ==
    Converted =>
        LET images == irDoc.doc.images
        IN  /\ \A i, j \in 1..Len(images) :
                  images[i].originalSrc = images[j].originalSrc => i = j
            /\ \A i \in 1..Len(images) :
                  images[i].id = IdOfSourceAlone(images[i].originalSrc)

\* ------------------------------------------------------------------------
\* C25  Data-URI image sources
\* ------------------------------------------------------------------------
ImageFormatNames ==
    [png |-> <<"p", "n", "g">>, jpeg |-> <<"j", "p", "e", "g">>,
     webp |-> <<"w", "e", "b", "p">>, gif |-> <<"g", "i", "f">>,
     svg |-> <<"s", "v", "g">>]

\* the image formats a data URI's <fmt> names (jpg names jpeg)
DeclaredFormats(subtype) ==
    {f \in DOMAIN ImageFormatNames :
        \/ ToLowerCase(subtype) = ImageFormatNames[f]
        \/ f = "jpeg" /\ ToLowerCase(subtype) = <<"j", "p", "g">>}

\* C25: loadImage on a string starting with data: either matches the pattern
\* data:image/<fmt>;base64,<payload> and returns the decoded payload bytes
\* with the declared format, or raises a PaperFlowError with code
\* INVALID_BASE64_IMAGE; no other error escapes.
DataUriLoading ==
    (lastImage # NoneV /\ IsDataUri(lastImage.src)) =>
        LET src == lastImage.src
            result == lastImage.result
        IN  \/ /\ DataUriMatches(src)
               /\ result.ok
               /\ src.payload.kind = "base64"
               /\ result.image.data = [bytes |-> src.payload.bytes]
               /\ result.image.format \in DeclaredFormats(src.subtype)
            \/ /\ ~result.ok
               /\ result.error.pf
               /\ result.error.code = "INVALID_BASE64_IMAGE"

\* ------------------------------------------------------------------------
\* C26  Child conversion
\* ------------------------------------------------------------------------
\* the text leaf of a bare string or number child
LeafOf(child) ==
    [type |-> "text",
     props |-> [content |-> StrV(IF "s" \in DOMAIN child THEN child.s
                                 ELSE NumToStr(child.n))],
     style |-> EmptyObj, children |-> <<>>]

RECURSIVE ChildrenConverted(_, _)
\* the node's child list is the element's children flattened, without the
\* null, undefined and boolean ones, each string or number as its text leaf
\* and each element as a node of its type converted the same way, in order
ChildrenConverted(el, node) ==
    LET kids == Surviving(Get(unwrapElement(el).props, "children"))
    IN  /\ Len(node.children) = Len(kids)
        /\ \A i \in 1..Len(kids) :
              IF isReactElement(kids[i])
              THEN /\ node.children[i].type = getElementType(unwrapElement(kids[i]).type)
                   /\ ChildrenConverted(kids[i], node.children[i])
              ELSE node.children[i] = LeafOf(kids[i])

\* C26: the IR child list of every node is obtained from its element's
\* children by flattening nested arrays to any depth, dropping every null,
\* undefined and boolean child, converting each bare string or number child
\* into a text leaf (empty style, no children) carrying that content, and
\* converting element children recursively, the order of the survivors kept.
ChildConversion == Converted => ChildrenConverted(element, RootNode)

ChildConversionWitness ==
    /\ Converted
    /\ element = DocOf(<<Elem(FnT("Page"), [children |-> NestedArray])>>, EmptyObj)
    /\ LET kids == irDoc.doc.pages[1].children
       IN  /\ Len(kids) = 5
           /\ kids[1] = LeafOf(StrV("Hello"))
           /\ kids[2] = LeafOf(NumV(1))
           /\ kids[3].type = "text" /\ kids[3].children = <<LeafOf(StrV("Hello"))>>
           /\ kids[4] = LeafOf(StrV("deep"))
           /\ kids[5] = LeafOf(NumV(42))

\* ------------------------------------------------------------------------
\* C27  Axis gap tokens
\* ------------------------------------------------------------------------
AxisGapProperty == [x |-> "columnGap", y |-> "rowGap"]

\* the positions of the words gap-<axis>-n with n in the spacing scale
AxisGapWords(words, axis) ==
    {i \in 1..Len(words) :
        /\ Len(words[i]) = 3
        /\ words[i][1] = "gap"
        /\ words[i][2] = axis
        /\ <<words[i][3]>> \in DOMAIN SPACING}

\* C27: for every n in the spacing scale the class token gap-x-n sets
\* columnGap to the scale value and gap-y-n sets rowGap to the scale value (a
\* converted node has the value of its last such token), and neither sets
\* gap.
AxisGapTokens ==
    Converted =>
        \A pair \in ClassOnlyPairs :
            LET words == pair.props["className"].words
            IN  /\ \A axis \in {"x", "y"} :
                      AxisGapWords(words, axis) # {} =>
                          /\ AxisGapProperty[axis] \in DOMAIN pair.node.style
                          /\ pair.node.style[AxisGapProperty[axis]] =
                                NumV(SPACING[<<words[Latest(AxisGapWords(words, axis))][3]>>])
                /\ (\A i \in 1..Len(words) : Len(words[i]) # 2 \/ words[i][1] # "gap")
                      => "gap" \notin DOMAIN pair.node.style

\* ------------------------------------------------------------------------
\* C28  Resolved images reach the output
\* ------------------------------------------------------------------------
RECURSIVE ImageNodes(_)
\* the image nodes among these nodes and below them
ImageNodes(nodes) ==
    IF nodes = <<>> THEN {}
    ELSE (IF Head(nodes).type = "image" THEN {Head(nodes)} ELSE {})
         \cup ImageNodes(Head(nodes).children) \cup ImageNodes(Tail(nodes))

PageImageNodes ==
    UNION {ImageNodes(irDoc.doc.pages[i].children) : i \in 1..Len(irDoc.doc.pages)}

\* the LoadedImages render stored for the usage entries of this source
ResolvedFor(src) ==
    {MapGet(run.images, irDoc.doc.images[i].id) :
        i \in {j \in 1..Len(irDoc.doc.images) :
                 /\ irDoc.doc.images[j].originalSrc = src
                 /\ MapHas(run.images, irDoc.doc.images[j].id)}}

\* C28: when the engine is handed the context, for every image node whose
\* source was resolved during the render, the engine's lookup in the resolved
\* images finds that node's LoadedImage (the key render stored it under is
\* the key the engine computes for the node), and the engine embeds the
\* resolved bytes rather than the original source.
ResolvedImagesReachOutput ==
    run.pc \in {"engine", "done"} =>
        \A node \in PageImageNodes :
            ResolvedFor(Get(node.props, "src")) # {} =>
                /\ satoriLoadedImage(node, run.images) \in ResolvedFor(Get(node.props, "src"))
                /\ \E loaded \in ResolvedFor(Get(node.props, "src")) :
                      satoriImageSrc(node, run.images) =
                          arrayBufferToDataUri(loaded.data, loaded.format)

\* ------------------------------------------------------------------------
\* C29  Bulk font resolution requests nothing that is not required
\* ------------------------------------------------------------------------
DefaultFontRequest ==
    [family |-> normalizeFamily(DEFAULT_FONT), weight |-> 400, style |-> "normal"]

\* C29: every (family, weight, style) load issued by loadFontsForDocument is
\* a combination that at least one node of the document declares, or the
\* single default font when no node declares a family.
OnlyRequiredFontsRequested ==
    run.pc = "fonts" =>
        \A i \in 1..Len(run.requested) :
            IF DeclaredFonts(RootNode) = {}
            THEN run.requested[i] = DefaultFontRequest
            ELSE run.requested[i] \in DeclaredFonts(RootNode)

\* ------------------------------------------------------------------------
\* C30  Clear is effective against in-flight work
\* ------------------------------------------------------------------------
\* the image cache gets an entry, or a new value for one, in this step
ImageCacheWritten ==
    \E url \in DOMAIN imageCache' :
        url \notin DOMAIN imageCache \/ imageCache'[url] # imageCache[url]

\* C30: after clearImageCache returns, the cache never comes to hold an entry
\* written by a resolution that started before the clear: whenever the image
\* cache is written, the writer is a loadImage call made after the last
\* clear.  (loadFont and clearFontCache follow the same pattern.)
ClearIsEffective ==
    [][ImageCacheWritten =>
          \E i \in 1..Len(imageLoads) :
              /\ ~imageLoads[i].cleared
              /\ imageLoads[i].wait.kind = "fetch"
              /\ imageLoads[i].wait.url \in DOMAIN imageCache'
              /\ imageLoads' = RemoveAt(imageLoads, i)]_vars

====
